---- MODULE Spec2Model ----
(***************************************************************************)
(* Account P&L reconciliation of the prop-trading tracker                  *)
(* (src/src/context/DataContext.tsx).                                      *)
(*                                                                         *)
(* Money is a JavaScript number in the source.  Here an amount is an       *)
(* integer count of 1/Scale dollars, so that sub-cent amounts exist and    *)
(* the rounding of line 98 does something.  A split share pnl / splitCount *)
(* is kept exact as a fraction with denominator splitCount.                *)
(*                                                                         *)
(* An optional field (maxDrawdown?, profitTarget?, endDate?) is the empty  *)
(* set when it is undefined and the singleton of its value otherwise.      *)
(***************************************************************************)
EXTENDS Integers, Sequences, FiniteSets

VARIABLES accounts, trades, today, prevAccounts, lastOp

\* storedTrades is the "trades" item of localStorage; tradeUpdates and
\* accountUpdates are the updaters React holds for the next render of
\* DataProvider; reconciledTrades is the latestTrades of the accounts updater
\* that ran last; dailyEntries is the daily-entry collection and uuids the
\* number of ids crypto.randomUUID() has given out; lastEntry is the argument
\* of the upsertDailyEntry call made last; view is what a page computed when
\* it last rendered.
VARIABLES storedTrades, tradeUpdates, accountUpdates, reconciledTrades,
          dailyEntries, uuids, lastEntry, view

\* storedAccounts is the "accounts" item of localStorage; sync is the state of
\* the remote sync in DataProvider: whether R2 is configured, syncStatus, the
\* timer id held by the syncTimer ref, the timers the browser has pending, the
\* number of timers set so far, the pushes (syncToR2 calls) started, each with
\* the payload it read and whether it is pending, ok or failed, and whether
\* the pull of the hydrate effect is pending.  BUCKET is the object the
\* worker keeps in R2, response the response the worker gave last and lastPut
\* the body of the last PUT it answered with 200.
VARIABLES storedAccounts, sync, BUCKET, response, lastPut

vars == <<accounts, trades, today, prevAccounts, lastOp,
          storedTrades, tradeUpdates, accountUpdates, reconciledTrades,
          dailyEntries, uuids, lastEntry, view,
          storedAccounts, sync, BUCKET, response, lastPut>>

\* what the trade handlers and the reconciliation pass never write
notReconciled ==
  <<tradeUpdates, accountUpdates, dailyEntries, uuids, lastEntry, view,
    BUCKET, response, lastPut>>

\* ---------------------------------------------------------------- bounds
MaxTrades == 2
MaxDay == 2

\* ------------------------------------------------------- number encoding
Scale == 1000

Dollars(n) == n * Scale

IsSet(opt) == opt # {}

Val(opt) == CHOOSE v \in opt : TRUE

\* the amount of one cent
Cent == Scale \div 100

\* Math.round(x * 100) / 100 of the amount x = num / den.  Math.round gives
\* the nearest integer and rounds a tie up (towards +infinity), so the
\* number of cents is floor(x / Cent + 1/2).
Round2(num, den) ==
  ((2 * num + den * Cent) \div (2 * den * Cent)) * Cent

\* Array.prototype.reduce((sum, t) => sum + t.pnl, 0)
RECURSIVE SumPnl(_)
SumPnl(ts) ==
  IF ts = <<>> THEN 0 ELSE ts[1].pnl + SumPnl(Tail(ts))

\* ------------------------------------------------------ recalcAccountPnl
IsTrading(a) ==
  \/ a.type = "funded" /\ a.status = "active"
  \/ a.type = "evaluation" /\ a.status = "in_progress"

IsSplit(t) == t.accountId = "split"

tradingIds(accts) ==
  LET active == SelectSeq(accts, IsTrading)
  IN  [k \in 1..Len(active) |-> active[k].id]

splitCountAllAccounts(accts) == Len(accts)

splitCount(accts) == Len(tradingIds(accts))

hasSplitTrades(allTrades) ==
  \E k \in 1..Len(allTrades) : IsSplit(allTrades[k])

directTrades(account, allTrades) ==
  LET Mine(t) == t.accountId = account.id
  IN  SelectSeq(allTrades, Mine)

hasDirectTrades(account, allTrades) ==
  Len(directTrades(account, allTrades)) > 0

isSplitTargetIgnoringStatus(account, accts, allTrades) ==
  hasSplitTrades(allTrades)

isSplitTarget(account, accts, allTrades) ==
  /\ \E k \in 1..Len(tradingIds(accts)) : tradingIds(accts)[k] = account.id
  /\ hasSplitTrades(allTrades)

isLinkedAlways(account, accts, allTrades) == TRUE

\* the negation of the early return of line 87
isLinked(account, accts, allTrades) ==
  hasDirectTrades(account, allTrades) \/ isSplitTarget(account, accts, allTrades)

directPnlOnTopOfOld(account, allTrades) ==
  account.profitLoss + SumPnl(directTrades(account, allTrades))

directPnl(account, allTrades) ==
  SumPnl(directTrades(account, allTrades))

\* the sum over the split trades of pnl / splitCount is splitNum / splitDen
splitApplies(account, accts, allTrades) ==
  isSplitTarget(account, accts, allTrades) /\ splitCount(accts) > 0

splitNum(account, accts, allTrades) ==
  IF splitApplies(account, accts, allTrades)
  THEN SumPnl(SelectSeq(allTrades, IsSplit))
  ELSE 0

splitDen(account, accts, allTrades) ==
  IF splitApplies(account, accts, allTrades) THEN splitCount(accts) ELSE 1

newPnlAccumulating(account, accts, allTrades) ==
  LET den == splitDen(account, accts, allTrades)
  IN  Round2((account.profitLoss + directPnl(account, allTrades)) * den
               + splitNum(account, accts, allTrades), den)

\* line 98
newPnl(account, accts, allTrades) ==
  LET den == splitDen(account, accts, allTrades)
  IN  Round2(directPnl(account, allTrades) * den
               + splitNum(account, accts, allTrades), den)

drawdownHitStrict(account, pnl) ==
  IsSet(account.maxDrawdown) /\ pnl < -Val(account.maxDrawdown)

drawdownHitAtAnyLoss(account, pnl) ==
  IsSet(account.maxDrawdown) /\ pnl < 0

drawdownHit(account, pnl) ==
  IsSet(account.maxDrawdown) /\ pnl <= -Val(account.maxDrawdown)

\* lines 104-116
statusAfterDrawdown(account, pnl) ==
  IF drawdownHit(account, pnl)
  THEN IF account.type = "evaluation" /\ account.status = "in_progress"
       THEN "failed"
       ELSE IF account.type = "funded" /\ account.status = "active"
            THEN "breached"
            ELSE account.status
  ELSE account.status

targetHitAnyType(account, pnl) ==
  /\ account.status \in {"in_progress", "active"}
  /\ IsSet(account.profitTarget)
  /\ pnl >= Val(account.profitTarget)

targetHitAnyStatus(account, pnl) ==
  /\ account.type = "evaluation"
  /\ IsSet(account.profitTarget)
  /\ pnl >= Val(account.profitTarget)

\* the condition of lines 119-124
targetHit(account, pnl) ==
  /\ account.type = "evaluation"
  /\ account.status = "in_progress"
  /\ IsSet(account.profitTarget)
  /\ pnl >= Val(account.profitTarget)

newStatusFailFirst(account, pnl) ==
  IF statusAfterDrawdown(account, pnl) # account.status
  THEN statusAfterDrawdown(account, pnl)
  ELSE IF targetHit(account, pnl) THEN "passed" ELSE account.status

\* lines 101-127: the profit-target check runs after the drawdown check and
\* overwrites its result
newStatus(account, pnl) ==
  IF targetHit(account, pnl) THEN "passed" ELSE statusAfterDrawdown(account, pnl)

newEndDateAlways(account, pnl, day) == {day}

newEndDate(account, pnl, day) ==
  IF \/ /\ drawdownHit(account, pnl)
        /\ \/ account.type = "evaluation" /\ account.status = "in_progress"
           \/ account.type = "funded" /\ account.status = "active"
     \/ targetHit(account, pnl)
  THEN {day}
  ELSE account.endDate

\* the callback of accounts.map, lines 81-135
recalcAccount(account, accts, allTrades, day) ==
  IF ~isLinked(account, accts, allTrades)
  THEN account
  ELSE LET pnl == newPnl(account, accts, allTrades)
       IN  [account EXCEPT !.profitLoss = pnl,
                           !.status = newStatus(account, pnl),
                           !.endDate = newEndDate(account, pnl, day)]

recalcAccountPnl(accts, allTrades, day) ==
  [k \in 1..Len(accts) |-> recalcAccount(accts[k], accts, allTrades, day)]

\* -------------------------------------------------------------- inputs
AccountIds == <<"a1", "a2">>

None == {}

Profile(type, status, endDate, profitLoss, maxDrawdown, profitTarget) ==
  [type |-> type, status |-> status, endDate |-> endDate,
   profitLoss |-> profitLoss, maxDrawdown |-> maxDrawdown,
   profitTarget |-> profitTarget, accountSize |-> Dollars(25000)]

Profiles ==
  { Profile("funded", "active", None, 0, {Dollars(1500)}, None),
    Profile("funded", "active", None, Dollars(200), None, {Dollars(3000)}),
    Profile("funded", "breached", {1}, -Dollars(1500), {Dollars(1500)}, None),
    Profile("funded", "withdrawn", {1}, Dollars(200), None, None),
    Profile("evaluation", "in_progress", None, 0, {Dollars(1500)}, {Dollars(3000)}),
    Profile("evaluation", "in_progress", None, Dollars(200), {0}, {0}),
    Profile("evaluation", "failed", {1}, -Dollars(1500), {Dollars(1500)}, {Dollars(3000)}),
    Profile("evaluation", "passed", {1}, Dollars(3000), None, {Dollars(3000)}) }

WithId(p, id) ==
  [id |-> id, type |-> p.type, status |-> p.status, endDate |-> p.endDate,
   profitLoss |-> p.profitLoss, maxDrawdown |-> p.maxDrawdown,
   profitTarget |-> p.profitTarget, accountSize |-> p.accountSize]

TradeAccountIds == {"a1", "a2", "split"}

PnlValues == {-Dollars(1500), 0, 7, Dollars(100), Dollars(3000)}

Days == 1..MaxDay

\* ----------------------------------------------------------------- sync
\* the state of the sync when DataProvider is constructed: syncStatus is
\* idle or disabled, no timer is set and nothing has been pushed or pulled
syncState(configured) ==
  [configured |-> configured,
   status |-> IF configured THEN "idle" ELSE "disabled",
   syncTimer |-> None, timers |-> {}, timerIds |-> 0,
   pushes |-> <<>>, pull |-> "none"]

pendingWithoutClear(timers, syncTimer, id) == timers \cup {id}

\* the timers pending after lines 155-156: clearTimeout removes the timer of
\* the ref, if it is still pending, and setTimeout adds the new one
pendingAfterSchedule(timers, syncTimer, id) == (timers \ syncTimer) \cup {id}

\* scheduleSync, lines 153-165, up to the timer being set
scheduleSync ==
  sync' = IF ~sync.configured
          THEN sync
          ELSE [sync EXCEPT
                  !.timers = pendingAfterSchedule(sync.timers, sync.syncTimer,
                                                  sync.timerIds + 1),
                  !.syncTimer = {sync.timerIds + 1},
                  !.timerIds = sync.timerIds + 1]

\* ---------------------------------------------------------------- state
\* The handlers, from accounts as the user entered them and no trade logged
\* yet.  A run lies within one calendar day: the handlers read the same today.
LiveProfiles ==
  { Profile("funded", "active", None, 0, {Dollars(1500)}, None),
    Profile("funded", "withdrawn", {1}, Dollars(200), None, None),
    Profile("evaluation", "in_progress", None, 0, {Dollars(1500)}, {Dollars(3000)}),
    Profile("evaluation", "failed", {1}, -Dollars(1500), {Dollars(1500)}, {Dollars(3000)}) }

LivePnlValues == {-Dollars(1500), Dollars(3000)}

Init ==
  /\ \E p1 \in LiveProfiles, p2 \in LiveProfiles :
       accounts = <<WithId(p1, AccountIds[1]), WithId(p2, AccountIds[2])>>
  /\ prevAccounts = accounts
  /\ trades = <<>>
  /\ today = MaxDay
  /\ lastOp = "init"
  /\ storedTrades = trades
  /\ reconciledTrades = <<>>
  /\ tradeUpdates = <<>>
  /\ accountUpdates = <<>>
  /\ dailyEntries = <<>>
  /\ uuids = 0
  /\ lastEntry = <<>>
  /\ storedAccounts = accounts
  /\ sync = syncState(FALSE)
  /\ BUCKET = None
  /\ response = None
  /\ lastPut = None
  /\ view = [page |-> "none"]

\* A stored trade is named by its position in the array: crypto.randomUUID()
\* gives every trade an id no other trade has, so "the trade whose id is id"
\* is one position, or none (position 0 stands for an id that is not stored).
\* Each handler call below is a UI event of its own: the _setTrades updater,
\* and persistTrades in it, has run when refreshAccountPnl reads getTrades().
TradePositions == 0..MaxTrades

\* refreshAccountPnl, lines 180-187; line 99 reads the clock
refreshAccountPnl(latestTrades, day) ==
  /\ accounts' = recalcAccountPnl(accounts, latestTrades, day)
  /\ storedAccounts' = accounts'
  /\ prevAccounts' = accounts
  /\ reconciledTrades' = latestTrades

addTrade(accountId, pnl) ==
  /\ Len(trades) < MaxTrades
  /\ trades' = Append(trades, [accountId |-> accountId, pnl |-> pnl])
  /\ storedTrades' = trades'
  /\ refreshAccountPnl(storedTrades', today)
  /\ scheduleSync
  /\ lastOp' = "trade"
  /\ UNCHANGED <<today, notReconciled>>

updateTrade(pos, accountId, pnl) ==
  /\ pos <= Len(trades)
  /\ trades' = [k \in 1..Len(trades) |->
                  IF k = pos THEN [accountId |-> accountId, pnl |-> pnl]
                  ELSE trades[k]]
  /\ storedTrades' = trades'
  /\ refreshAccountPnl(storedTrades', today)
  /\ scheduleSync
  /\ lastOp' = "trade"
  /\ UNCHANGED <<today, notReconciled>>

deleteTrade(pos) ==
  /\ pos <= Len(trades)
  /\ trades' = [k \in 1..(Len(trades) - (IF pos = 0 THEN 0 ELSE 1)) |->
                  IF pos = 0 \/ k < pos THEN trades[k] ELSE trades[k + 1]]
  /\ storedTrades' = trades'
  /\ refreshAccountPnl(storedTrades', today)
  /\ scheduleSync
  /\ lastOp' = "trade"
  /\ UNCHANGED <<today, notReconciled>>

Next ==
  \/ \E a \in TradeAccountIds, p \in LivePnlValues : addTrade(a, p)
  \/ \E k \in TradePositions, a \in TradeAccountIds, p \in LivePnlValues :
       updateTrade(k, a, p)
  \/ \E k \in TradePositions : deleteTrade(k)

Spec == Init /\ [][Next]_vars

\* ------------------------------------------- one pass over any collections
RECURSIVE TradeLists(_)
TradeLists(n) ==
  IF n = 0
  THEN {<<>>}
  ELSE LET shorter == TradeLists(n - 1)
       IN  shorter \cup
           { Append(ts, [accountId |-> a, pnl |-> p]) :
               ts \in {x \in shorter : Len(x) = n - 1},
               a \in TradeAccountIds, p \in PnlValues }

InitPass ==
  /\ \E p1 \in Profiles, p2 \in Profiles :
       accounts = <<WithId(p1, AccountIds[1]), WithId(p2, AccountIds[2])>>
  /\ prevAccounts = accounts
  /\ trades \in TradeLists(MaxTrades)
  /\ today \in Days \ {1}
  /\ lastOp = "init"
  /\ storedTrades = trades
  /\ reconciledTrades = <<>>
  /\ tradeUpdates = <<>>
  /\ accountUpdates = <<>>
  /\ dailyEntries = <<>>
  /\ uuids = 0
  /\ lastEntry = <<>>
  /\ storedAccounts = accounts
  /\ sync = syncState(FALSE)
  /\ BUCKET = None
  /\ response = None
  /\ lastPut = None
  /\ view = [page |-> "none"]

\* recalcAccountPnl applied to the stored collections, as refreshAccountPnl does
Reconcile ==
  /\ refreshAccountPnl(trades, today)
  /\ lastOp' = "reconcile"
  /\ UNCHANGED <<trades, today, storedTrades, sync, notReconciled>>

NextPass == Reconcile

SpecPass == InitPass /\ [][NextPass]_vars

\* ------------------------------------------------------------ properties
\* In every state after a pass, accounts is what the pass returned for the
\* collection prevAccounts and the stored trades, on the day today.
PassDone == lastOp # "init"

Indices == 1..Len(prevAccounts)

Abs(x) == IF x < 0 THEN -x ELSE x

\* the ledger, read without the reconciler's helpers
DirectPositions(i) ==
  {k \in 1..Len(trades) : trades[k].accountId = prevAccounts[i].id}

SplitPositions == {k \in 1..Len(trades) : trades[k].accountId = "split"}

RECURSIVE LedgerSum(_)
LedgerSum(S) ==
  IF S = {}
  THEN 0
  ELSE LET k == CHOOSE x \in S : TRUE
       IN  trades[k].pnl + LedgerSum(S \ {k})

ActiveBefore(i) ==
  \/ prevAccounts[i].type = "evaluation" /\ prevAccounts[i].status = "in_progress"
  \/ prevAccounts[i].type = "funded" /\ prevAccounts[i].status = "active"

ActiveIndices == {i \in Indices : ActiveBefore(i)}

SplitEligible(i) == ActiveBefore(i) /\ SplitPositions # {}

Recomputed(i) == DirectPositions(i) # {} \/ SplitEligible(i)

\* r is the amount num / den rounded to 2 decimals: a whole number of cents
\* at most half a cent away
IsRounded(r, num, den) ==
  /\ r % Cent = 0
  /\ 2 * Abs(r * den - num) <= den * Cent

TerminalStatuses == {"failed", "passed", "breached", "withdrawn"}

\* C1: an account with no direct trade that is not split-eligible comes out
\* of a reconciliation pass exactly as it went in (profitLoss, status, endDate
\* and every other field).
UntouchedAccountsKept ==
  PassDone =>
    \A i \in Indices :
      (DirectPositions(i) = {} /\ ~SplitEligible(i)) =>
        accounts[i] = prevAccounts[i]

UntouchedAccountsWitness ==
  /\ PassDone
  /\ accounts # prevAccounts
  /\ \E i \in Indices :
       /\ DirectPositions(i) = {}
       /\ ~SplitEligible(i)
       /\ prevAccounts[i].profitLoss # 0
       /\ accounts[i].profitLoss = prevAccounts[i].profitLoss

\* C2: running the reconciler again on its own result with the same trades
\* changes no account's profitLoss or status.
ReconcileIdempotent ==
  PassDone =>
    LET again == recalcAccountPnl(accounts, trades, today)
    IN  \A i \in Indices :
          /\ again[i].profitLoss = accounts[i].profitLoss
          /\ again[i].status = accounts[i].status

\* C3: with no split trade stored, an account with a direct trade gets the
\* sum of its direct trades' pnl, rounded to 2 decimals, as profitLoss.
Conservation ==
  (PassDone /\ SplitPositions = {}) =>
    \A i \in Indices :
      DirectPositions(i) # {} =>
        IsRounded(accounts[i].profitLoss, LedgerSum(DirectPositions(i)), 1)

ConservationWitness ==
  /\ PassDone
  /\ SplitPositions = {}
  /\ \E i \in Indices :
       /\ Cardinality(DirectPositions(i)) >= 2
       /\ LedgerSum(DirectPositions(i)) % Cent # 0
       /\ prevAccounts[i].profitLoss # 0
       /\ prevAccounts[i].status \in TerminalStatuses
       /\ accounts[i].profitLoss # prevAccounts[i].profitLoss

\* both thresholds of an in-progress evaluation are met by its new profitLoss
BothThresholdsMet(i) ==
  /\ prevAccounts[i].type = "evaluation"
  /\ prevAccounts[i].status = "in_progress"
  /\ IsSet(prevAccounts[i].maxDrawdown)
  /\ IsSet(prevAccounts[i].profitTarget)
  /\ Recomputed(i)
  /\ accounts[i].profitLoss <= -Val(prevAccounts[i].maxDrawdown)
  /\ accounts[i].profitLoss >= Val(prevAccounts[i].profitTarget)

StatusMonotone ==
  [][\A i \in 1..Len(accounts) :
       /\ accounts[i].status \in TerminalStatuses =>
            accounts'[i].status = accounts[i].status
       /\ accounts'[i].status # accounts[i].status =>
            <<accounts[i].status, accounts'[i].status>> \in
              {<<"in_progress", "failed">>, <<"in_progress", "passed">>,
               <<"active", "breached">>}]_vars

\* a failed evaluation was recomputed to a profitLoss at its profit target and
\* is still failed
StatusMonotoneWitness ==
  /\ lastOp = "trade"
  /\ \E i \in Indices :
       /\ prevAccounts[i].status = "failed"
       /\ DirectPositions(i) # {}
       /\ IsSet(prevAccounts[i].profitTarget)
       /\ accounts[i].profitLoss >= Val(prevAccounts[i].profitTarget)
       /\ accounts[i].profitLoss # prevAccounts[i].profitLoss
       /\ accounts[i].status = "failed"

\* what an account's new profitLoss holds beyond its direct trades
SplitShare(i) == accounts[i].profitLoss - LedgerSum(DirectPositions(i))

RECURSIVE ShareSum(_)
ShareSum(S) ==
  IF S = {}
  THEN 0
  ELSE LET i == CHOOSE x \in S : TRUE
       IN  SplitShare(i) + ShareSum(S \ {i})

InactiveGetsNoSplit ==
  PassDone =>
    \A i \in Indices :
      (~ActiveBefore(i) /\ DirectPositions(i) # {}) =>
        IsRounded(accounts[i].profitLoss, LedgerSum(DirectPositions(i)), 1)

InactiveGetsNoSplitWitness ==
  /\ PassDone
  /\ LedgerSum(SplitPositions) >= Dollars(100)
  /\ \E i \in Indices :
       /\ ~ActiveBefore(i)
       /\ DirectPositions(i) # {}
       /\ accounts[i].profitLoss # prevAccounts[i].profitLoss
  /\ \E j \in Indices : ActiveBefore(j) /\ SplitShare(j) # 0

\* two active funded accounts and the single trade {accountId: "split", pnl: 100}
ScenarioB ==
  /\ PassDone
  /\ Len(prevAccounts) = 2
  /\ \A i \in Indices :
       prevAccounts[i].type = "funded" /\ prevAccounts[i].status = "active"
  /\ trades = <<[accountId |-> "split", pnl |-> Dollars(100)]>>

\* C8 as claimed: each account's profitLoss grows by 50 over its value before
\* the pass.
ScenarioBAddsFifty ==
  ScenarioB =>
    \A i \in Indices :
      accounts[i].profitLoss = prevAccounts[i].profitLoss + Dollars(50)

\* C8 as amended: each account's profitLoss is set to 50, which is a growth of
\* 50 only for an account whose profitLoss was 0.
ScenarioBSetsFifty ==
  ScenarioB =>
    \A i \in Indices : accounts[i].profitLoss = Dollars(50)

ScenarioBWitness ==
  /\ ScenarioB
  /\ prevAccounts[1].profitLoss = 0
  /\ prevAccounts[2].profitLoss # 0
  /\ prevAccounts[2].profitLoss # Dollars(50)

FundedWithDrawdown(i) ==
  /\ prevAccounts[i].type = "funded"
  /\ prevAccounts[i].status = "active"
  /\ IsSet(prevAccounts[i].maxDrawdown)
  /\ Recomputed(i)

\* C9: a recomputed active funded account with maxDrawdown set is breached
\* with endDate = today exactly when its new profitLoss <= -maxDrawdown, and
\* keeps status and endDate otherwise; maxDrawdown 1500 and the one direct
\* trade of pnl -1500 give breached and profitLoss -1500.
AutoBreach ==
  PassDone =>
    \A i \in Indices :
      FundedWithDrawdown(i) =>
        /\ IF accounts[i].profitLoss <= -Val(prevAccounts[i].maxDrawdown)
           THEN accounts[i].status = "breached" /\ accounts[i].endDate = {today}
           ELSE /\ accounts[i].status = "active"
                /\ accounts[i].endDate = prevAccounts[i].endDate
        /\ ( /\ prevAccounts[i].maxDrawdown = {Dollars(1500)}
             /\ trades = <<[accountId |-> prevAccounts[i].id,
                            pnl |-> -Dollars(1500)]>> ) =>
             /\ accounts[i].status = "breached"
             /\ accounts[i].profitLoss = -Dollars(1500)

\* scenario A
AutoBreachWitness ==
  /\ PassDone
  /\ \E i \in Indices :
       /\ FundedWithDrawdown(i)
       /\ prevAccounts[i].profitLoss = 0
       /\ prevAccounts[i].maxDrawdown = {Dollars(1500)}
       /\ trades = <<[accountId |-> prevAccounts[i].id, pnl |-> -Dollars(1500)]>>
       /\ accounts[i].status = "breached"

EvaluationInProgress(i) ==
  /\ prevAccounts[i].type = "evaluation"
  /\ prevAccounts[i].status = "in_progress"
  /\ Recomputed(i)

DrawdownMet(i) ==
  /\ IsSet(prevAccounts[i].maxDrawdown)
  /\ accounts[i].profitLoss <= -Val(prevAccounts[i].maxDrawdown)

TargetMet(i) ==
  /\ IsSet(prevAccounts[i].profitTarget)
  /\ accounts[i].profitLoss >= Val(prevAccounts[i].profitTarget)

FundedNeverPassedOrFailed ==
  \A i \in Indices :
    (prevAccounts[i].type = "funded"
       /\ accounts[i].status # prevAccounts[i].status) =>
      accounts[i].status \notin {"passed", "failed"}

noUpdatePending == tradeUpdates = <<>> /\ accountUpdates = <<>>

\* the updaters of addTrade (lines 391-395), updateTrade (401-405) and
\* deleteTrade (411-415)
tradeUpdater(u, prev) ==
  CASE u.op = "add" -> Append(prev, u.trade)
    [] u.op = "update" ->
         [k \in 1..Len(prev) |-> IF k = u.pos THEN u.trade ELSE prev[k]]
    [] u.op = "delete" ->
         [k \in 1..(Len(prev) - (IF u.pos \in 1..Len(prev) THEN 1 ELSE 0)) |->
            IF u.pos \notin 1..Len(prev) \/ k < u.pos THEN prev[k] ELSE prev[k + 1]]

RECURSIVE runTradeUpdates(_, _)
runTradeUpdates(updates, prev) ==
  IF updates = <<>>
  THEN prev
  ELSE runTradeUpdates(Tail(updates), tradeUpdater(updates[1], prev))

\* the updaters of refreshAccountPnl (lines 182-186), each with the
\* latestTrades it was created with
RECURSIVE runAccountUpdates(_, _, _)
runAccountUpdates(snapshots, accts, day) ==
  IF snapshots = <<>>
  THEN accts
  ELSE runAccountUpdates(Tail(snapshots),
                         recalcAccountPnl(accts, snapshots[1], day), day)

\* _setTrades(updater); refreshAccountPnl(): the body of the three handlers.
\* getTrades() of line 181 reads localStorage when the handler runs; the
\* accounts updater is given after the trades updater, so it always waits.
setTradesAndRefresh(u) ==
  /\ storedTrades' = IF noUpdatePending THEN tradeUpdater(u, trades)
                                        ELSE storedTrades
  /\ tradeUpdates' = Append(tradeUpdates, u)
  /\ accountUpdates' = Append(accountUpdates, storedTrades')
  /\ scheduleSync
  /\ lastOp' = "call"
  /\ UNCHANGED <<accounts, trades, today, prevAccounts, reconciledTrades,
                 dailyEntries, uuids, lastEntry, view, storedAccounts,
                 BUCKET, response, lastPut>>

\* addTrade as the import dialog calls it, once per imported trade in one
\* event (Trades.onImport), and as the trade form calls it
addTradeCall(accountId, pnl) ==
  /\ Len(runTradeUpdates(tradeUpdates, trades)) < MaxTrades
  /\ setTradesAndRefresh([op |-> "add", pos |-> 0,
                          trade |-> [accountId |-> accountId, pnl |-> pnl]])

\* updateTrade and deleteTrade are called once per event, by the trade form
\* and by the delete button
updateTradeCall(pos, accountId, pnl) ==
  /\ noUpdatePending
  /\ pos <= Len(trades)
  /\ setTradesAndRefresh([op |-> "update", pos |-> pos,
                          trade |-> [accountId |-> accountId, pnl |-> pnl]])

deleteTradeCall(pos) ==
  /\ noUpdatePending
  /\ pos <= Len(trades)
  /\ setTradesAndRefresh([op |-> "delete", pos |-> pos,
                          trade |-> [accountId |-> "split", pnl |-> 0]])

\* the render after the event handler has returned: every waiting updater
\* runs, in the order it was given
render ==
  /\ ~noUpdatePending
  /\ trades' = runTradeUpdates(tradeUpdates, trades)
  /\ storedTrades' = trades'
  /\ accounts' = runAccountUpdates(accountUpdates, accounts, today)
  /\ prevAccounts' =
       runAccountUpdates(SubSeq(accountUpdates, 1, Len(accountUpdates) - 1),
                         accounts, today)
  /\ reconciledTrades' = accountUpdates[Len(accountUpdates)]
  /\ tradeUpdates' = <<>>
  /\ accountUpdates' = <<>>
  /\ lastOp' = "render"
  /\ storedAccounts' = accounts'
  /\ UNCHANGED <<today, dailyEntries, uuids, lastEntry, view, sync,
                 BUCKET, response, lastPut>>

EventProfiles ==
  { Profile("funded", "active", None, 0, {Dollars(1500)}, None),
    Profile("evaluation", "in_progress", None, 0, {Dollars(1500)}, {Dollars(3000)}) }

InitEvent ==
  /\ \E p1 \in EventProfiles, p2 \in EventProfiles :
       accounts = <<WithId(p1, AccountIds[1]), WithId(p2, AccountIds[2])>>
  /\ prevAccounts = accounts
  /\ trades = <<>>
  /\ today = MaxDay
  /\ lastOp = "init"
  /\ storedTrades = trades
  /\ reconciledTrades = <<>>
  /\ tradeUpdates = <<>>
  /\ accountUpdates = <<>>
  /\ dailyEntries = <<>>
  /\ uuids = 0
  /\ lastEntry = <<>>
  /\ storedAccounts = accounts
  /\ sync = syncState(FALSE)
  /\ BUCKET = None
  /\ response = None
  /\ lastPut = None
  /\ view = [page |-> "none"]

EventPnlValues == {-Dollars(1500)}

NextEvent ==
  \/ \E a \in TradeAccountIds, p \in EventPnlValues : addTradeCall(a, p)
  \/ \E k \in TradePositions, a \in TradeAccountIds, p \in EventPnlValues :
       updateTradeCall(k, a, p)
  \/ \E k \in TradePositions : deleteTradeCall(k)
  \/ render

SpecEvent == InitEvent /\ [][NextEvent]_vars

\* C11: once the updates of a UI event have been applied, the reconciliation
\* applied last to the accounts was computed from the stored trade collection
\* as it is then, every mutation of the event included.
ReconciledFromStoredTrades ==
  lastOp = "render" => reconciledTrades = storedTrades

\* ------------------------------------------------------- what the pages show
\* A date is a day number: "yyyy-MM-dd" strings compare as their days do.
\* The dates span a month boundary, the last date being the first day of the
\* next month; monthOf is the "yyyy-MM" a date string starts with.
MaxDate == 3

Dates == 1..MaxDate

Months == {1, 2}

monthOf(date) == IF date < MaxDate THEN 1 ELSE 2

\* a trade as the pages read it
Trade(date, time, accountId, setupId, pnl, result) ==
  [date |-> date, time |-> time, accountId |-> accountId, setupId |-> setupId,
   pnl |-> pnl, result |-> result, riskReward |-> None, rating |-> None]

\* the result the CSV import gives a trade
resultOf(pnl) == IF pnl > 0 THEN "win" ELSE IF pnl < 0 THEN "loss" ELSE "breakeven"

\* Math.round(100 * n / d) for n >= 0 and d > 0
RoundPercent(n, d) == (200 * n + d) \div (2 * d)

\* Array.prototype.sort: stable, so elements the comparator ranks equal keep
\* their order; before holds the pairs <<a, b>> of elements of which the
\* comparator puts a before b
Pairs(s) == {s[k] : k \in 1..Len(s)} \X {s[k] : k \in 1..Len(s)}

StableSort(s, before) ==
  LET rank(i) ==
        Cardinality({j \in 1..Len(s) :
                       \/ <<s[j], s[i]>> \in before
                       \/ <<s[i], s[j]>> \notin before /\ j < i}) + 1
  IN  [k \in 1..Len(s) |-> s[CHOOSE i \in 1..Len(s) : rank(i) = k]]

\* tradesByDate.get(date) || []
tradesByDate(allTrades, date) ==
  LET On(t) == t.date = date
  IN  SelectSeq(allTrades, On)

\* entryMap.get(date): the map keeps the last entry of a date
entryMap(entries, date) ==
  LET at == {k \in 1..Len(entries) : entries[k].date = date}
  IN  IF at = {}
      THEN {}
      ELSE {entries[CHOOSE k \in at : \A j \in at : j <= k]}

\* the pnl of a calendar day cell: undefined (the empty set) or one amount
cellPnl(allTrades, entries, date) ==
  LET dayTrades == tradesByDate(allTrades, date)
      entry == entryMap(entries, date)
  IN  IF Len(dayTrades) > 0
      THEN {SumPnl(dayTrades)}
      ELSE IF entry = {} THEN {} ELSE Val(entry).pnl

\* the dayPnl map of monthStats: dayPnl[date] is empty when the map has no
\* such key
dayPnl(allTrades, entries, month) ==
  LET InMonth(x) == monthOf(x.date) = month
      monthTrades == SelectSeq(allTrades, InMonth)
      WithPnl(e) == InMonth(e) /\ IsSet(e.pnl)
      monthEntries == SelectSeq(entries, WithPnl)
  IN  [date \in Dates |->
         LET mine == tradesByDate(monthTrades, date)
             On(e) == e.date = date
             manual == SelectSeq(monthEntries, On)
         IN  IF Len(mine) > 0
             THEN {SumPnl(mine)}
             ELSE IF Len(manual) > 0 THEN manual[1].pnl ELSE {}]

monthStats(allTrades, entries, month) ==
  LET InMonth(t) == monthOf(t.date) = month
      days == dayPnl(allTrades, entries, month)
  IN  [totalPnl |-> SumPnl(SelectSeq(allTrades, InMonth)),
       winDays |-> Cardinality({d \in Dates : IsSet(days[d]) /\ Val(days[d]) > 0}),
       lossDays |-> Cardinality({d \in Dates : IsSet(days[d]) /\ Val(days[d]) < 0}),
       tradingDays |-> Cardinality({d \in Dates : IsSet(days[d])})]

\* the "Win Rate" card of the calendar
monthWinRate(stats) ==
  IF stats.tradingDays > 0
  THEN RoundPercent(stats.winDays, stats.tradingDays)
  ELSE 0

currentStreakWithoutBreak(entries) ==
  LET Counted(e) == IsSet(e.pnl) /\ Val(e.pnl) # 0
      counted == SelectSeq(entries, Counted)
      later == {p \in Pairs(counted) : p[1].date > p[2].date}
      sorted == StableSort(counted, later)
      firstType == IF Val(sorted[1].pnl) > 0 THEN "green" ELSE "red"
      Same(e) == \/ firstType = "green" /\ Val(e.pnl) > 0
                 \/ firstType = "red" /\ Val(e.pnl) < 0
  IN  IF Len(sorted) = 0
      THEN [count |-> 0, type |-> "none"]
      ELSE [count |-> Len(SelectSeq(sorted, Same)), type |-> firstType]

\* Dashboard.currentStreak
currentStreak(entries) ==
  LET Counted(e) == IsSet(e.pnl) /\ Val(e.pnl) # 0
      counted == SelectSeq(entries, Counted)
      later == {p \in Pairs(counted) : p[1].date > p[2].date}
      sorted == StableSort(counted, later)
      firstType == IF Val(sorted[1].pnl) > 0 THEN "green" ELSE "red"
      Same(e) == \/ firstType = "green" /\ Val(e.pnl) > 0
                 \/ firstType = "red" /\ Val(e.pnl) < 0
  IN  IF Len(sorted) = 0
      THEN [count |-> 0, type |-> "none"]
      ELSE [count |-> Cardinality({k \in 1..Len(sorted) :
                                     \A j \in 1..k : Same(sorted[j])}),
            type |-> firstType]

\* ------------------------------------------------------------- statistics
\* A quotient of two numbers is kept exact as num / den with den > 0;
\* Infinity is 1 / 0.
Ratio(num, den) == [num |-> num, den |-> den]

Infinity == Ratio(1, 0)

Number(n) == Ratio(n, 1)

Max(a, b) == IF a > b THEN a ELSE b

WithResult(ts, result) ==
  LET Is(t) == t.result = result
  IN  SelectSeq(ts, Is)

profitFactorNoSentinel(grossProfit, grossLoss) ==
  IF grossLoss > 0 THEN Ratio(grossProfit, grossLoss) ELSE Number(0)

\* grossLoss > 0 ? grossProfit / grossLoss : grossProfit > 0 ? Infinity : 0
profitFactor(grossProfit, grossLoss) ==
  IF grossLoss > 0
  THEN Ratio(grossProfit, grossLoss)
  ELSE IF grossProfit > 0 THEN Infinity ELSE Number(0)

\* the comparator of the chronological sorts: date, then time with a missing
\* or empty time as ""; a time is "HH:mm", rendered as a number
timeKey(time) == IF IsSet(time) THEN Val(time) ELSE 0

EarlierByDate(a, b) == a.date < b.date

Earlier(a, b) ==
  \/ a.date < b.date
  \/ a.date = b.date /\ timeKey(a.time) < timeKey(b.time)

chronological(ts) ==
  StableSort(ts, {p \in Pairs(ts) : Earlier(p[1], p[2])})

scanStepKeepingRuns(st, trade) ==
  IF trade.result = "win"
  THEN [consecWins |-> st.consecWins + 1, consecLosses |-> 0,
        maxConsecWins |-> Max(st.maxConsecWins, st.consecWins + 1),
        maxConsecLosses |-> st.maxConsecLosses]
  ELSE IF trade.result = "loss"
       THEN [consecWins |-> 0, consecLosses |-> st.consecLosses + 1,
             maxConsecWins |-> st.maxConsecWins,
             maxConsecLosses |-> Max(st.maxConsecLosses, st.consecLosses + 1)]
       ELSE st

\* the body of the loop of lines 160-173
scanStep(st, trade) ==
  IF trade.result = "win"
  THEN [consecWins |-> st.consecWins + 1, consecLosses |-> 0,
        maxConsecWins |-> Max(st.maxConsecWins, st.consecWins + 1),
        maxConsecLosses |-> st.maxConsecLosses]
  ELSE IF trade.result = "loss"
       THEN [consecWins |-> 0, consecLosses |-> st.consecLosses + 1,
             maxConsecWins |-> st.maxConsecWins,
             maxConsecLosses |-> Max(st.maxConsecLosses, st.consecLosses + 1)]
       ELSE [consecWins |-> 0, consecLosses |-> 0,
             maxConsecWins |-> st.maxConsecWins,
             maxConsecLosses |-> st.maxConsecLosses]

RECURSIVE scanStreaks(_, _)
scanStreaks(sorted, st) ==
  IF sorted = <<>>
  THEN st
  ELSE scanStreaks(Tail(sorted), scanStep(st, sorted[1]))

\* t.length > 0 ? (wins.length / t.length) * 100 : 0
winRate(wins, total) ==
  IF total > 0 THEN Ratio(100 * wins, total) ELSE Number(0)

\* the arithmetic of quotients
Times(a, b) == Ratio(a.num * b.num, a.den * b.den)

Minus(a, b) == Ratio(a.num * b.den - b.num * a.den, a.den * b.den)

averageUnguarded(sum, count) == Ratio(sum, count)

\* count > 0 ? sum / count : 0
average(sum, count) == IF count > 0 THEN Ratio(sum, count) ELSE Number(0)

\* Math.max(...xs) and Math.min(...xs) of a non-empty list of pnl
maxPnl(ts) == CHOOSE x \in {ts[k].pnl : k \in 1..Len(ts)} :
                \A k \in 1..Len(ts) : ts[k].pnl <= x

minPnl(ts) == CHOOSE x \in {ts[k].pnl : k \in 1..Len(ts)} :
                \A k \in 1..Len(ts) : ts[k].pnl >= x

\* reduce((s, x) => s + (x.riskReward || 0), 0), and the same for rating
RECURSIVE SumOf(_, _)
SumOf(ts, field) ==
  IF ts = <<>> THEN 0 ELSE Val(ts[1][field]) + SumOf(Tail(ts), field)

\* Analytics.metrics, for the date range "all"
metrics(t) ==
  IF Len(t) = 0
  THEN [totalTrades |-> 0, wins |-> 0, losses |-> 0, breakeven |-> 0,
        winRate |-> Number(0), profitFactor |-> Number(0),
        expectancy |-> Number(0), totalPnl |-> 0,
        grossProfit |-> 0, grossLoss |-> 0,
        avgWin |-> Number(0), avgLoss |-> Number(0), avgTrade |-> Number(0),
        largestWin |-> 0, largestLoss |-> 0,
        maxConsecWins |-> 0, maxConsecLosses |-> 0,
        avgRR |-> Number(0), avgRating |-> Number(0)]
  ELSE LET wins == WithResult(t, "win")
           losses == WithResult(t, "loss")
           breakeven == WithResult(t, "breakeven")
           grossProfit == SumPnl(wins)
           grossLoss == Abs(SumPnl(losses))
           avgWin == average(grossProfit, Len(wins))
           avgLoss == average(grossLoss, Len(losses))
           lossRate == Ratio(Len(losses), Len(t))
           percent == winRate(Len(wins), Len(t))
           streaks == scanStreaks(chronological(t),
                                  [consecWins |-> 0, consecLosses |-> 0,
                                   maxConsecWins |-> 0, maxConsecLosses |-> 0])
           HasRR(x) == x.riskReward # None
           HasRating(x) == x.rating # None
           tradesWithRR == SelectSeq(t, HasRR)
           tradesWithRating == SelectSeq(t, HasRating)
       IN  [totalTrades |-> Len(t), wins |-> Len(wins), losses |-> Len(losses),
            breakeven |-> Len(breakeven),
            winRate |-> percent,
            profitFactor |-> profitFactor(grossProfit, grossLoss),
            expectancy |-> Minus(Times(Ratio(percent.num, 100 * percent.den),
                                       avgWin),
                                 Times(lossRate, avgLoss)),
            totalPnl |-> SumPnl(t),
            grossProfit |-> grossProfit, grossLoss |-> grossLoss,
            avgWin |-> avgWin, avgLoss |-> avgLoss,
            avgTrade |-> average(SumPnl(t), Len(t)),
            largestWin |-> IF Len(wins) > 0 THEN maxPnl(wins) ELSE 0,
            largestLoss |-> IF Len(losses) > 0 THEN minPnl(losses) ELSE 0,
            maxConsecWins |-> streaks.maxConsecWins,
            maxConsecLosses |-> streaks.maxConsecLosses,
            avgRR |-> average(SumOf(tradesWithRR, "riskReward"),
                              Len(tradesWithRR)),
            avgRating |-> average(SumOf(tradesWithRating, "rating"),
                                  Len(tradesWithRating))]

\* the keys of the setup map, in the order the trades first name them
setupIds(t) ==
  LET First(k) == \A j \in 1..(k - 1) : t[j].setupId # t[k].setupId
      firsts == {k \in 1..Len(t) : First(k)}
      at(n) == CHOOSE k \in firsts : Cardinality({j \in firsts : j < k}) = n - 1
  IN  [n \in 1..Cardinality(firsts) |-> t[at(n)].setupId]

\* Analytics.setupData: one row per setup, highest pnl first; 99 stands for
\* an infinite profit factor
setupData(t) ==
  LET row(setupId) ==
        LET Of(x) == x.setupId = setupId
            mine == SelectSeq(t, Of)
            grossProfit == SumPnl(WithResult(mine, "win"))
            grossLoss == Abs(SumPnl(WithResult(mine, "loss")))
        IN  [setupId |-> setupId,
             pnl |-> SumPnl(mine),
             trades |-> Len(mine),
             winRate |-> winRate(Len(WithResult(mine, "win")), Len(mine)),
             profitFactor |->
               IF grossLoss > 0
               THEN Ratio(grossProfit, grossLoss)
               ELSE IF grossProfit > 0 THEN Number(99) ELSE Number(0)]
      rows == [n \in 1..Len(setupIds(t)) |-> row(setupIds(t)[n])]
      higher == {p \in Pairs(rows) : p[1].pnl > p[2].pnl}
  IN  StableSort(rows, higher)

equityCurveUnsorted(t) ==
  [i \in 1..Len(t) |->
     [trade |-> i, date |-> t[i].date, pnl |-> SumPnl(SubSeq(t, 1, i))]]

\* Analytics.equityCurve
equityCurve(t) ==
  LET sorted == chronological(t)
  IN  [i \in 1..Len(sorted) |->
         [trade |-> i, date |-> sorted[i].date,
          pnl |-> SumPnl(SubSeq(sorted, 1, i))]]

\* Analytics.drawdownData
drawdownData(t) ==
  LET sorted == chronological(t)
      cumPnl(i) == SumPnl(SubSeq(sorted, 1, i))
      peak(i) == CHOOSE m \in {0} \cup {cumPnl(j) : j \in 1..i} :
                   \A j \in 1..i : cumPnl(j) <= m
  IN  [i \in 1..Len(sorted) |->
         [trade |-> i, date |-> sorted[i].date,
          drawdown |-> IF peak(i) > 0
                       THEN Ratio(-(100 * (peak(i) - cumPnl(i))), peak(i))
                       ELSE Number(0),
          cumPnl |-> cumPnl(i)]]

\* calc of Analytics.performanceAfterResult
calc(label, ts) ==
  [label |-> label,
   trades |-> Len(ts),
   pnl |-> SumPnl(ts),
   winRate |-> winRate(Len(WithResult(ts, "win")), Len(ts)),
   avgPnl |-> IF Len(ts) > 0 THEN Ratio(SumPnl(ts), Len(ts)) ELSE Number(0)]

\* Analytics.performanceAfterResult
performanceAfterResult(t) ==
  LET sorted == chronological(t)
      after(result) ==
        LET follows == {i \in 2..Len(sorted) : sorted[i - 1].result = result}
            at(n) == CHOOSE i \in follows :
                       Cardinality({j \in follows : j < i}) = n - 1
        IN  [n \in 1..Cardinality(follows) |-> sorted[at(n)]]
  IN  <<calc("After Win", after("win")), calc("After Loss", after("loss"))>>

\* the order count of a trade: a split trade is one order per active account
orderCount(t, splitN) == IF t.accountId = "split" THEN splitN ELSE 1

RECURSIVE orders(_, _)
orders(ts, splitN) ==
  IF ts = <<>> THEN 0 ELSE orderCount(ts[1], splitN) + orders(Tail(ts), splitN)

tradingCountUnweighted(ts, splitN) ==
  Len(WithResult(ts, "win")) + Len(WithResult(ts, "loss"))

\* const tradingCount = wins + losses
tradingCount(ts, splitN) ==
  orders(WithResult(ts, "win"), splitN) + orders(WithResult(ts, "loss"), splitN)

\* tradingCount > 0 ? Math.round((wins / tradingCount) * 100) : 0
roundedWinRate(ts, splitN) ==
  IF tradingCount(ts, splitN) > 0
  THEN RoundPercent(orders(WithResult(ts, "win"), splitN), tradingCount(ts, splitN))
  ELSE 0

\* Math.max(activeAccounts.length, 1)
splitN(accts) == Max(Len(SelectSeq(accts, IsTrading)), 1)

\* Dashboard.tradeStats
tradeStats(ts, accts) ==
  LET Gain(t) == t.pnl > 0
      Loss(t) == t.pnl < 0
      Rated(t) == t.rating # None /\ Val(t.rating) # 0
  IN  [wins |-> orders(WithResult(ts, "win"), splitN(accts)),
       losses |-> orders(WithResult(ts, "loss"), splitN(accts)),
       totalPnl |-> SumPnl(ts),
       winRate |-> roundedWinRate(ts, splitN(accts)),
       profitFactor |-> profitFactor(SumPnl(SelectSeq(ts, Gain)),
                                     Abs(SumPnl(SelectSeq(ts, Loss)))),
       avgRating |-> average(SumOf(SelectSeq(ts, Rated), "rating"),
                             Len(SelectSeq(ts, Rated))),
       total |-> orders(ts, splitN(accts))]

\* Trades.stats, with no filter set
stats(ts, accts) ==
  LET wins == orders(WithResult(ts, "win"), splitN(accts))
      losses == orders(WithResult(ts, "loss"), splitN(accts))
      winSum == SumPnl(WithResult(ts, "win"))
      lossSum == SumPnl(WithResult(ts, "loss"))
      avgWin == IF wins > 0 THEN Ratio(winSum, wins) ELSE Number(0)
      avgLoss == IF losses > 0 THEN Ratio(Abs(lossSum), losses) ELSE Number(0)
  IN  [wins |-> wins, losses |-> losses, totalPnl |-> SumPnl(ts),
       winRate |-> roundedWinRate(ts, splitN(accts)),
       avgWin |-> avgWin, avgLoss |-> avgLoss,
       profitFactor |->
         IF avgLoss.num > 0
         THEN Ratio(winSum, Abs(lossSum))
         ELSE IF wins > 0 THEN Infinity ELSE Number(0),
       total |-> orders(ts, splitN(accts))]

RECURSIVE SumSize(_)
SumSize(accts) ==
  IF accts = <<>> THEN 0 ELSE accts[1].accountSize + SumSize(Tail(accts))

\* Dashboard.startingCapital
startingCapital(accts) == SumSize(SelectSeq(accts, IsTrading))

anchorDateSameDay(firstDate) == firstDate

\* format(subDays(parseISO(firstDate), 1), "yyyy-MM-dd")
anchorDate(firstDate) == firstDate - 1

\* Dashboard.equityCurve: dayMap keeps, per date, the cumulative pnl after the
\* last trade of that date
dashboardEquityCurve(ts, capital) ==
  LET sorted == chronological(ts)
      lastOf == {i \in 1..Len(sorted) :
                   \A j \in (i + 1)..Len(sorted) : sorted[j].date # sorted[i].date}
      at(n) == CHOOSE i \in lastOf : Cardinality({j \in lastOf : j < i}) = n - 1
      points == [n \in 1..Cardinality(lastOf) |->
                   [date |-> sorted[at(n)].date,
                    balance |-> Round2(capital + SumPnl(SubSeq(sorted, 1, at(n))), 1)]]
  IN  IF Len(ts) = 0
      THEN <<>>
      ELSE <<[date |-> anchorDate(points[1].date), balance |-> capital]>>
             \o points

\* a page renders: view holds what it computed from the stored collections
pageShown ==
  /\ lastOp' = "view"
  /\ UNCHANGED <<accounts, trades, today, prevAccounts, storedTrades,
                 tradeUpdates, accountUpdates, reconciledTrades,
                 dailyEntries, uuids, lastEntry, storedAccounts, sync,
                 BUCKET, response, lastPut>>

\* the Calendar page showing the month currentMonth
Calendar(currentMonth) ==
  /\ view' = [page |-> "Calendar",
              currentMonth |-> currentMonth,
              cell |-> [date \in Dates |-> cellPnl(trades, dailyEntries, date)],
              monthStats |-> monthStats(trades, dailyEntries, currentMonth),
              winRate |-> monthWinRate(monthStats(trades, dailyEntries, currentMonth))]
  /\ pageShown

\* the Dashboard page
Dashboard ==
  /\ view' = [page |-> "Dashboard",
              tradeStats |-> tradeStats(trades, accounts),
              currentStreak |-> currentStreak(dailyEntries),
              startingCapital |-> startingCapital(accounts),
              equityCurve |-> dashboardEquityCurve(trades, startingCapital(accounts))]
  /\ pageShown

\* the Analytics page, date range "all"
Analytics ==
  /\ view' = [page |-> "Analytics",
              metrics |-> metrics(trades),
              equityCurve |-> equityCurve(trades),
              drawdownData |-> drawdownData(trades),
              performanceAfterResult |-> performanceAfterResult(trades),
              setupData |-> setupData(trades)]
  /\ pageShown

\* the Trades page, no filter set
TradesPage ==
  /\ view' = [page |-> "Trades", stats |-> stats(trades, accounts)]
  /\ pageShown

\* ----------------------------------------------- days with trades and entries
DayPnlValues == {-Dollars(100), 0, Dollars(100)}

EntryPnlChoices == {None, {-Dollars(50)}, {Dollars(100)}}

\* the trades of at most n imported rows
RECURSIVE DayTradeLists(_)
DayTradeLists(n) ==
  IF n = 0
  THEN {<<>>}
  ELSE LET shorter == DayTradeLists(n - 1)
       IN  shorter \cup
           { Append(ts, Trade(d, None, "a1", "s1", p, resultOf(p))) :
               ts \in {x \in shorter : Len(x) = n - 1},
               d \in Dates, p \in DayPnlValues }

\* the entries of the dates in S, oldest first, with the pnl f gives each
entriesOf(S, f) ==
  LET dateAt(k) == CHOOSE d \in S : Cardinality({e \in S : e < d}) = k - 1
  IN  [k \in 1..Cardinality(S) |->
         [id |-> dateAt(k), date |-> dateAt(k), pnl |-> f[dateAt(k)],
          notes |-> None]]

EntryLists ==
  { entriesOf(S, f) : S \in SUBSET Dates, f \in [Dates -> EntryPnlChoices] }

ViewProfiles ==
  { Profile("funded", "active", None, 0, {Dollars(1500)}, None),
    Profile("evaluation", "failed", {1}, -Dollars(1500), {Dollars(1500)}, {Dollars(3000)}) }

InitDays ==
  /\ \E p1 \in ViewProfiles, p2 \in ViewProfiles :
       accounts = <<WithId(p1, AccountIds[1]), WithId(p2, AccountIds[2])>>
  /\ prevAccounts = accounts
  /\ trades \in DayTradeLists(MaxTrades)
  /\ dailyEntries \in EntryLists
  /\ today = MaxDay
  /\ lastOp = "init"
  /\ storedTrades = trades
  /\ reconciledTrades = <<>>
  /\ tradeUpdates = <<>>
  /\ accountUpdates = <<>>
  /\ uuids = Len(dailyEntries)
  /\ lastEntry = <<>>
  /\ storedAccounts = accounts
  /\ sync = syncState(FALSE)
  /\ BUCKET = None
  /\ response = None
  /\ lastPut = None
  /\ view = [page |-> "none"]

NextDays ==
  \/ \E m \in Months : Calendar(m)
  \/ Dashboard

SpecDays == InitDays /\ [][NextDays]_vars

\* the P&L of a date: the sum of its trades if it has any, else its entry's pnl
Resolved(date) ==
  LET traded == {k \in 1..Len(trades) : trades[k].date = date}
      entered == {k \in 1..Len(dailyEntries) : dailyEntries[k].date = date}
  IN  IF traded # {}
      THEN {LedgerSum(traded)}
      ELSE IF entered = {}
           THEN {}
           ELSE dailyEntries[CHOOSE k \in entered : TRUE].pnl

Sign(x) == IF x > 0 THEN 1 ELSE IF x < 0 THEN -1 ELSE 0

WinDaysOf(month) ==
  {d \in Dates : monthOf(d) = month /\ IsSet(Resolved(d)) /\ Val(Resolved(d)) > 0}

LossDaysOf(month) ==
  {d \in Dates : monthOf(d) = month /\ IsSet(Resolved(d)) /\ Val(Resolved(d)) < 0}

\* the dates the streak counts, read from the resolved P&L
StreakDates == {d \in Dates : IsSet(Resolved(d)) /\ Val(Resolved(d)) # 0}

ResolvedStreak ==
  IF StreakDates = {}
  THEN [count |-> 0, type |-> "none"]
  ELSE LET latest == CHOOSE d \in StreakDates : \A e \in StreakDates : e <= d
           SameSign(d) == Sign(Val(Resolved(d))) = Sign(Val(Resolved(latest)))
       IN  [count |-> Cardinality({d \in StreakDates :
                                     \A e \in StreakDates : e >= d => SameSign(e)}),
            type |-> IF Val(Resolved(latest)) > 0 THEN "green" ELSE "red"]

\* the calendar shows and counts the resolved P&L of every date
CalendarPrecedence ==
  view.page = "Calendar" =>
    /\ \A d \in Dates : view.cell[d] = Resolved(d)
    /\ view.monthStats.winDays = Cardinality(WinDaysOf(view.currentMonth))
    /\ view.monthStats.lossDays = Cardinality(LossDaysOf(view.currentMonth))

\* the dashboard streak is the streak of the resolved P&L
StreakPrecedence ==
  view.page = "Dashboard" => view.currentStreak = ResolvedStreak

\* C12: in the calendar day cells, in the monthly win and loss day counts and
\* in the dashboard streak, the P&L of a date that has trades is the sum of
\* those trades' pnl, and the entry's pnl is used only for a date without
\* trades.
DayPnlPrecedence == CalendarPrecedence /\ StreakPrecedence

\* C17: the monthly win rate shown is winDays / (winDays + lossDays) x 100, to
\* the whole percent, over the days of the month whose resolved P&L is not 0,
\* and 0 when there is no such day.
MonthWinRateOverDecisiveDays ==
  view.page = "Calendar" =>
    LET w == Cardinality(WinDaysOf(view.currentMonth))
        l == Cardinality(LossDaysOf(view.currentMonth))
    IN  view.winRate = IF w + l > 0 THEN RoundPercent(w, w + l) ELSE 0

\* ------------------------------------------- trades of any result and amount
\* The trade form takes result and pnl separately (a trade saved with no pnl
\* entered has pnl 0 and the default result "win"), so a result comes with
\* any amount.
StatOutcomes ==
  { <<"win", Dollars(3)>>, <<"win", 0>>, <<"win", -Dollars(1)>>,
    <<"loss", -Dollars(1)>>, <<"breakeven", 0>> }

StatAccountIds == {"a1", "split"}

SetupIds == {"s1", "s2"}

RECURSIVE StatTradeLists(_)
StatTradeLists(n) ==
  IF n = 0
  THEN {<<>>}
  ELSE LET shorter == StatTradeLists(n - 1)
       IN  shorter \cup
           { Append(ts, Trade(1, None, a, u, o[2], o[1])) :
               ts \in {x \in shorter : Len(x) = n - 1},
               a \in StatAccountIds, u \in SetupIds, o \in StatOutcomes }

InitStats ==
  /\ \E p1 \in ViewProfiles, p2 \in ViewProfiles :
       accounts = <<WithId(p1, AccountIds[1]), WithId(p2, AccountIds[2])>>
  /\ prevAccounts = accounts
  /\ trades \in StatTradeLists(MaxTrades)
  /\ dailyEntries = <<>>
  /\ today = MaxDay
  /\ lastOp = "init"
  /\ storedTrades = trades
  /\ reconciledTrades = <<>>
  /\ tradeUpdates = <<>>
  /\ accountUpdates = <<>>
  /\ uuids = 0
  /\ lastEntry = <<>>
  /\ storedAccounts = accounts
  /\ sync = syncState(FALSE)
  /\ BUCKET = None
  /\ response = None
  /\ lastPut = None
  /\ view = [page |-> "none"]

NextStats == Analytics \/ Dashboard \/ TradesPage

SpecStats == InitStats /\ [][NextStats]_vars

\* the trades counted by their result field, read from the stored collection
WinPositions == {k \in 1..Len(trades) : trades[k].result = "win"}

LossPositions == {k \in 1..Len(trades) : trades[k].result = "loss"}

\* the quotient q is the number n / d
IsQuotient(q, n, d) == q.den > 0 /\ q.num * d = n * q.den

\* C13: the Analytics win rate is wins / (wins + losses) x 100 with the trades
\* counted by result and breakeven trades left out of the denominator, and 0
\* when there is no win and no loss.
WinRateOverDecisiveTrades ==
  view.page = "Analytics" =>
    LET wins == Cardinality(WinPositions)
        losses == Cardinality(LossPositions)
    IN  IF wins + losses > 0
        THEN IsQuotient(view.metrics.winRate, 100 * wins, wins + losses)
        ELSE IsQuotient(view.metrics.winRate, 0, 1)

\* C14: the win rate of the Analytics metrics, of the Dashboard and of the
\* Trades page lies in [0, 100], and is 0 when no trade is a win or a loss.
WinRateBounds ==
  LET undecided == WinPositions = {} /\ LossPositions = {}
  IN  /\ view.page = "Analytics" =>
           /\ view.metrics.winRate.den > 0
           /\ view.metrics.winRate.num >= 0
           /\ view.metrics.winRate.num <= 100 * view.metrics.winRate.den
           /\ undecided => view.metrics.winRate.num = 0
      /\ view.page = "Dashboard" =>
           /\ view.tradeStats.winRate \in 0..100
           /\ undecided => view.tradeStats.winRate = 0
      /\ view.page = "Trades" =>
           /\ view.stats.winRate \in 0..100
           /\ undecided => view.stats.winRate = 0

\* a split win counted once per active account beside a direct loss
WinRateBoundsWitness ==
  /\ view.page = "Dashboard"
  /\ \E k \in WinPositions : trades[k].accountId = "split"
  /\ \E k \in LossPositions : trades[k].accountId # "split"
  /\ view.tradeStats.wins = 2
  /\ view.tradeStats.losses = 1
  /\ view.tradeStats.winRate = 67

\* gross profit and gross loss of a set of trade positions: the pnl of the
\* trades with result win, and the size of the pnl of those with result loss
GrossProfitOf(S) == LedgerSum(S \cap WinPositions)

GrossLossOf(S) == Abs(LedgerSum(S \cap LossPositions))

OnlyWins(S) == S # {} /\ S \subseteq WinPositions

PositionsOfSetup(setupId) == {k \in 1..Len(trades) : trades[k].setupId = setupId}

AllPositions == 1..Len(trades)

\* C15 as claimed: grossProfit / grossLoss when grossLoss > 0, positive
\* infinity for trades that are all wins, 0 for no trade and for grossLoss = 0
\* with grossProfit = 0; in the key metrics and in every row of the setup
\* table.
ProfitFactorSentinelClaimed ==
  view.page = "Analytics" =>
    LET Claimed(pf, S) ==
          /\ GrossLossOf(S) > 0 =>
               IsQuotient(pf, GrossProfitOf(S), GrossLossOf(S))
          /\ OnlyWins(S) => pf = Infinity
          /\ (S = {} \/ (GrossLossOf(S) = 0 /\ GrossProfitOf(S) = 0)) =>
               pf = Number(0)
    IN  /\ Claimed(view.metrics.profitFactor, AllPositions)
        /\ \A n \in 1..Len(view.setupData) :
             Claimed(view.setupData[n].profitFactor,
                     PositionsOfSetup(view.setupData[n].setupId))

\* C15 as amended: grossProfit / grossLoss when grossLoss > 0; when grossLoss
\* is 0, 0 if grossProfit <= 0 and otherwise positive infinity in the key
\* metrics and 99 in a row of the setup table; so trades that are all wins
\* give infinity (99) only when their pnl adds up to more than 0.
ProfitFactorSentinel ==
  view.page = "Analytics" =>
    LET Holds(pf, S, sentinel) ==
          /\ GrossLossOf(S) > 0 =>
               IsQuotient(pf, GrossProfitOf(S), GrossLossOf(S))
          /\ (GrossLossOf(S) = 0 /\ GrossProfitOf(S) > 0) => pf = sentinel
          /\ (GrossLossOf(S) = 0 /\ GrossProfitOf(S) <= 0) => pf = Number(0)
    IN  /\ Holds(view.metrics.profitFactor, AllPositions, Infinity)
        /\ \A n \in 1..Len(view.setupData) :
             Holds(view.setupData[n].profitFactor,
                   PositionsOfSetup(view.setupData[n].setupId), Number(99))

\* all trades are wins: one setup's win of pnl 0 gives its row 0, the other
\* setup's win gives its row 99, and the key metrics show infinity
ProfitFactorSentinelWitness ==
  /\ view.page = "Analytics"
  /\ OnlyWins(AllPositions)
  /\ view.metrics.profitFactor = Infinity
  /\ \E n \in 1..Len(view.setupData) :
       /\ OnlyWins(PositionsOfSetup(view.setupData[n].setupId))
       /\ view.setupData[n].profitFactor = Number(0)
  /\ \E n \in 1..Len(view.setupData) :
       view.setupData[n].profitFactor = Number(99)

\* ------------------------------------------------- trades in order of time
MaxChrono == 3

\* result and pnl of a trade; the breakeven trade moved the balance by less
\* than a cent
ChronoOutcomes ==
  { <<"win", Dollars(300)>>, <<"loss", -Dollars(100)>>, <<"breakeven", 7>> }

\* date and time of a trade: with no time on any day, and with a time on the
\* first day
ChronoSlots == {<<d, None>> : d \in Days} \cup {<<1, {1}>>}

RECURSIVE ChronoTradeLists(_)
ChronoTradeLists(n) ==
  IF n = 0
  THEN {<<>>}
  ELSE LET shorter == ChronoTradeLists(n - 1)
       IN  shorter \cup
           { Append(ts, Trade(w[1], w[2], "a1", "s1", o[2], o[1])) :
               ts \in {x \in shorter : Len(x) = n - 1},
               w \in ChronoSlots, o \in ChronoOutcomes }

InitChrono ==
  /\ accounts = <<WithId(Profile("funded", "active", None, 0,
                                 {Dollars(1500)}, None), AccountIds[1]),
                  WithId(Profile("evaluation", "failed", {1}, -Dollars(1500),
                                 {Dollars(1500)}, {Dollars(3000)}), AccountIds[2])>>
  /\ prevAccounts = accounts
  /\ trades \in ChronoTradeLists(MaxChrono)
  /\ dailyEntries = <<>>
  /\ today = MaxDay
  /\ lastOp = "init"
  /\ storedTrades = trades
  /\ reconciledTrades = <<>>
  /\ tradeUpdates = <<>>
  /\ accountUpdates = <<>>
  /\ uuids = 0
  /\ lastEntry = <<>>
  /\ storedAccounts = accounts
  /\ sync = syncState(FALSE)
  /\ BUCKET = None
  /\ response = None
  /\ lastPut = None
  /\ view = [page |-> "none"]

NextChrono == Analytics \/ Dashboard

SpecChrono == InitChrono /\ [][NextChrono]_vars

\* trade i comes before trade j in time: earlier date, or the same date and
\* earlier time with no time before any time, or the same date and time and
\* stored first
TimeOf(k) == IF trades[k].time = {} THEN 0 ELSE Val(trades[k].time)

Precedes(i, j) ==
  \/ trades[i].date < trades[j].date
  \/ trades[i].date = trades[j].date /\ TimeOf(i) < TimeOf(j)
  \/ trades[i].date = trades[j].date /\ TimeOf(i) = TimeOf(j) /\ i < j

\* the place of trade i in the order of time, and the trade at place r
Place(i) == Cardinality({j \in AllPositions : Precedes(j, i)}) + 1

At(r) == CHOOSE i \in AllPositions : Place(i) = r

\* the length of the longest run of consecutive trades of one result
MaxRun(result) ==
  LET Run(a, b) == \A r \in a..b : trades[At(r)].result = result
  IN  CHOOSE n \in 0..Len(trades) :
        /\ n = 0 \/ \E a \in AllPositions :
                      a + n - 1 <= Len(trades) /\ Run(a, a + n - 1)
        /\ \A a \in AllPositions, b \in AllPositions :
             (a <= b /\ Run(a, b)) => b - a + 1 <= n

\* C16: max consecutive wins (losses) is the length of the longest run of
\* consecutive win (loss) trades in the order of date and then time; a trade
\* of any other result, a breakeven included, ends the run.
MaxConsecutive ==
  view.page = "Analytics" =>
    /\ view.metrics.maxConsecWins = MaxRun("win")
    /\ view.metrics.maxConsecLosses = MaxRun("loss")

\* win, loss, win in the order of time: an untimed and a timed trade of one
\* day and a trade of the next day, not stored in that order
MaxConsecutiveWitness ==
  /\ view.page = "Analytics"
  /\ Len(trades) = 3
  /\ trades[At(1)].date = trades[At(2)].date
  /\ trades[At(1)].time # trades[At(2)].time
  /\ trades[At(2)].date < trades[At(3)].date
  /\ At(1) # 1
  /\ trades[At(1)].result = "win"
  /\ trades[At(2)].result = "loss"
  /\ trades[At(3)].result = "win"
  /\ view.metrics.maxConsecWins = 1
  /\ view.metrics.maxConsecLosses = 1

\* the pnl of the first r trades in the order of time
CumulativeAt(r) == LedgerSum({i \in AllPositions : Place(i) <= r})

\* C19: the Analytics equity curve has one point per trade, in the order of
\* date and then time; point i holds the sum of the pnl of the first i trades
\* in that order, so the last point holds the sum of all pnl, and no trade
\* gives no point.
AnalyticsEquityCurve ==
  view.page = "Analytics" =>
    /\ Len(view.equityCurve) = Len(trades)
    /\ \A r \in 1..Len(trades) :
         /\ view.equityCurve[r].trade = r
         /\ view.equityCurve[r].date = trades[At(r)].date
         /\ view.equityCurve[r].pnl = CumulativeAt(r)
    /\ Len(trades) > 0 =>
         view.equityCurve[Len(trades)].pnl = LedgerSum(AllPositions)

\* +300, -100, +300 in the order of time, not stored in that order, give the
\* points 300, 200, 500
AnalyticsEquityCurveWitness ==
  /\ view.page = "Analytics"
  /\ Len(trades) = 3
  /\ At(1) # 1
  /\ trades[At(1)].pnl = Dollars(300)
  /\ trades[At(2)].pnl = -Dollars(100)
  /\ trades[At(3)].pnl = Dollars(300)
  /\ view.equityCurve[1].pnl = Dollars(300)
  /\ view.equityCurve[2].pnl = Dollars(200)
  /\ view.equityCurve[3].pnl = Dollars(500)

TradeDates == {trades[k].date : k \in AllPositions}

\* the n-th trade date, earliest first
DateAt(n) == CHOOSE d \in TradeDates : Cardinality({e \in TradeDates : e < d}) = n - 1

\* the pnl of all trades dated on or before d
CumulativeThrough(d) == LedgerSum({k \in AllPositions : trades[k].date <= d})

\* the Dashboard curve is an anchor the day before the first trade date at the
\* starting capital, then one point per trade date, earliest first, whose
\* balance is the starting capital plus the pnl so far, exactly or rounded
DashboardCurveShape(exact) ==
  LET curve == view.equityCurve
      Is(balance, amount) ==
        IF exact THEN balance = amount ELSE IsRounded(balance, amount, 1)
      capital == view.startingCapital
      n == Cardinality(TradeDates)
  IN  /\ Len(curve) = n + 1
      /\ curve[1] = [date |-> DateAt(1) - 1, balance |-> capital]
      /\ \A k \in 1..n :
           /\ curve[k + 1].date = DateAt(k)
           /\ Is(curve[k + 1].balance, capital + CumulativeThrough(DateAt(k)))
      /\ Is(curve[n + 1].balance, capital + LedgerSum(AllPositions))

\* C20 as claimed: each balance is the starting capital plus the cumulative
\* pnl of the trades dated on or before the point's date.
DashboardEquityCurveExact ==
  (view.page = "Dashboard" /\ Len(trades) > 0) =>
    DashboardCurveShape(TRUE)

\* C20 as amended: each balance is the starting capital plus the cumulative
\* pnl of the trades dated on or before the point's date, rounded to 2
\* decimals; the anchor holds the starting capital as it is.
DashboardEquityCurve ==
  (view.page = "Dashboard" /\ Len(trades) > 0) =>
    DashboardCurveShape(FALSE)

\* two trades of one day and a trade of another day, with a balance that the
\* rounding moved
DashboardEquityCurveWitness ==
  /\ view.page = "Dashboard"
  /\ Cardinality(TradeDates) = 2
  /\ Len(trades) = 3
  /\ At(1) # 1
  /\ \E k \in 1..2 :
       view.equityCurve[k + 1].balance #
         view.startingCapital + CumulativeThrough(DateAt(k))

\* the trades that follow a trade of the given result in the order of time
Following(result) ==
  {At(r) : r \in {q \in 2..Len(trades) : trades[At(q - 1)].result = result}}

\* C21: the streak scan, the Analytics equity curve, the drawdown curve, the
\* after-win/after-loss analysis and the Dashboard equity curve all follow one
\* order of the trades: date ascending, then time ascending with a missing
\* time before any time, and trades of equal date and time in stored order.
OrderingConsistency ==
  /\ view.page = "Analytics" =>
       /\ view.metrics.maxConsecWins = MaxRun("win")
       /\ view.metrics.maxConsecLosses = MaxRun("loss")
       /\ Len(view.equityCurve) = Len(trades)
       /\ Len(view.drawdownData) = Len(trades)
       /\ \A r \in 1..Len(trades) :
            /\ view.equityCurve[r].date = trades[At(r)].date
            /\ view.equityCurve[r].pnl = CumulativeAt(r)
            /\ view.drawdownData[r].date = trades[At(r)].date
            /\ view.drawdownData[r].cumPnl = CumulativeAt(r)
       /\ view.performanceAfterResult[1].trades = Cardinality(Following("win"))
       /\ view.performanceAfterResult[1].pnl = LedgerSum(Following("win"))
       /\ view.performanceAfterResult[2].trades = Cardinality(Following("loss"))
       /\ view.performanceAfterResult[2].pnl = LedgerSum(Following("loss"))
  /\ (view.page = "Dashboard" /\ Len(trades) > 0) =>
       /\ \A k \in 1..Cardinality(TradeDates) :
            /\ view.equityCurve[k + 1].date = DateAt(k)
            /\ IsRounded(view.equityCurve[k + 1].balance,
                         view.startingCapital + CumulativeThrough(DateAt(k)), 1)

\* three trades of one day stored timed loss, untimed win, untimed breakeven:
\* in the order of time the win comes first, the breakeven follows it and the
\* loss is last, so one trade follows a win and none follows a loss
OrderingConsistencyWitness ==
  /\ view.page = "Analytics"
  /\ Len(trades) = 3
  /\ At(1) = 2 /\ At(2) = 3 /\ At(3) = 1
  /\ trades[1].date = trades[3].date
  /\ trades[2].time = trades[3].time
  /\ trades[1].result = "loss"
  /\ trades[2].result = "win"
  /\ trades[3].result = "breakeven"
  /\ view.performanceAfterResult[1].trades = 1
  /\ view.performanceAfterResult[2].trades = 0
  /\ view.drawdownData[3].cumPnl = view.equityCurve[3].pnl

\* ------------------------------------------- handlers from active accounts
\* every account is trading and its profitLoss is inside its thresholds
ActiveProfiles ==
  { Profile("funded", "active", None, 0, {Dollars(1500)}, None),
    Profile("evaluation", "in_progress", None, 0, {Dollars(1500)}, {Dollars(3000)}) }

InitLedger ==
  /\ \E p1 \in ActiveProfiles, p2 \in ActiveProfiles :
       accounts = <<WithId(p1, AccountIds[1]), WithId(p2, AccountIds[2])>>
  /\ prevAccounts = accounts
  /\ trades = <<>>
  /\ today = MaxDay
  /\ lastOp = "init"
  /\ storedTrades = trades
  /\ reconciledTrades = <<>>
  /\ tradeUpdates = <<>>
  /\ accountUpdates = <<>>
  /\ dailyEntries = <<>>
  /\ uuids = 0
  /\ lastEntry = <<>>
  /\ storedAccounts = accounts
  /\ sync = syncState(FALSE)
  /\ BUCKET = None
  /\ response = None
  /\ lastPut = None
  /\ view = [page |-> "none"]

SpecLedger == InitLedger /\ [][Next]_vars

\* the account's profitLoss is at or beyond the threshold of its status
Justified(a) ==
  /\ a.status \in {"failed", "breached"} =>
       IsSet(a.maxDrawdown) /\ a.profitLoss <= -Val(a.maxDrawdown)
  /\ a.status = "passed" =>
       IsSet(a.profitTarget) /\ a.profitLoss >= Val(a.profitTarget)

\* C28 as claimed: in every state the handlers reach from active accounts
\* inside their thresholds, a failed or breached account has profitLoss <=
\* -maxDrawdown and a passed account has profitLoss >= profitTarget.
TerminalJustifiedByLedger ==
  \A i \in 1..Len(accounts) : Justified(accounts[i])

\* C28 as amended: in every state the handlers reach from active accounts
\* inside their thresholds, an account whose status the handler just changed
\* to failed or breached has profitLoss <= -maxDrawdown and one it changed to
\* passed has profitLoss >= profitTarget; an account that ended earlier keeps
\* its status whatever its profitLoss has become.
TerminalJustifiedWhenSet ==
  lastOp = "trade" =>
    \A i \in Indices :
      IF accounts[i].status # prevAccounts[i].status
      THEN Justified(accounts[i])
      ELSE prevAccounts[i].status \in TerminalStatuses =>
             accounts[i].status = prevAccounts[i].status

\* the handler just ended one account at its drawdown, while another account,
\* failed before, has meanwhile been recomputed to a profit
TerminalJustifiedWitness ==
  /\ lastOp = "trade"
  /\ \E i, j \in Indices :
       /\ prevAccounts[i].status = "active"
       /\ accounts[i].status = "breached"
       /\ accounts[i].profitLoss <= -Val(accounts[i].maxDrawdown)
       /\ prevAccounts[j].status = "failed"
       /\ accounts[j].status = "failed"
       /\ accounts[j].profitLoss > 0

\* ------------------------------------------------------ frame of one pass
FrameFields == {"profitLoss", "status", "endDate"}

\* C27: recalcAccountPnl returns the accounts in the same order with the same
\* ids, adding and removing none; it changes no field of an account other
\* than profitLoss, status and endDate, and an account whose status the pass
\* left unchanged has its endDate unchanged too.
ReconciliationFrame ==
  PassDone =>
    /\ Len(accounts) = Len(prevAccounts)
    /\ \A i \in Indices :
         /\ accounts[i].id = prevAccounts[i].id
         /\ DOMAIN accounts[i] = DOMAIN prevAccounts[i]
         /\ \A f \in DOMAIN prevAccounts[i] \ FrameFields :
              accounts[i][f] = prevAccounts[i][f]
         /\ accounts[i].status = prevAccounts[i].status =>
              accounts[i].endDate = prevAccounts[i].endDate

\* a pass that ended one account and gave another, ended before, a new
\* profitLoss and left its status and its endDate alone
ReconciliationFrameWitness ==
  /\ lastOp = "reconcile"
  /\ \E i, j \in Indices :
       /\ accounts[i].status # prevAccounts[i].status
       /\ accounts[i].endDate = {today}
       /\ accounts[j].status = prevAccounts[j].status
       /\ accounts[j].profitLoss # prevAccounts[j].profitLoss
       /\ IsSet(prevAccounts[j].endDate)
       /\ accounts[j].endDate = prevAccounts[j].endDate

\* ------------------------------------------------- empty and one-sided lists
\* a trade is a win, a loss or a breakeven, with or without a risk/reward
\* ratio and a rating
RatedOutcomes ==
  {<<"win", Dollars(3)>>, <<"win", Dollars(1)>>, <<"loss", -Dollars(1)>>,
   <<"loss", -Dollars(2)>>, <<"breakeven", 0>>}

RiskRewards == {None, {2}}

Ratings == {None, {4}}

RECURSIVE RatedTradeLists(_)
RatedTradeLists(n) ==
  IF n = 0
  THEN {<<>>}
  ELSE LET shorter == RatedTradeLists(n - 1)
       IN  shorter \cup
           { Append(ts, [Trade(1, None, "a1", "s1", o[2], o[1])
                           EXCEPT !.riskReward = rr, !.rating = rating]) :
               ts \in {x \in shorter : Len(x) = n - 1},
               o \in RatedOutcomes, rr \in RiskRewards, rating \in Ratings }

InitRated ==
  /\ accounts = <<WithId(Profile("funded", "active", None, 0,
                                 {Dollars(1500)}, None), AccountIds[1])>>
  /\ prevAccounts = accounts
  /\ trades \in RatedTradeLists(MaxTrades)
  /\ dailyEntries = <<>>
  /\ today = MaxDay
  /\ lastOp = "init"
  /\ storedTrades = trades
  /\ reconciledTrades = <<>>
  /\ tradeUpdates = <<>>
  /\ accountUpdates = <<>>
  /\ uuids = 0
  /\ lastEntry = <<>>
  /\ storedAccounts = accounts
  /\ sync = syncState(FALSE)
  /\ BUCKET = None
  /\ response = None
  /\ lastPut = None
  /\ view = [page |-> "none"]

NextRated == Analytics \/ Dashboard

SpecRated == InitRated /\ [][NextRated]_vars

\* the quotient is a number: not a division by zero
IsNumber(q) == q.den > 0

\* C23: for an empty trade list every core statistic is 0 and the equity and
\* drawdown curves are empty; for any list the averages, rates and the
\* expectancy are numbers; and for a list with no win (no loss) the average
\* win and largest win (average loss and largest loss) are 0.
NeutralOnDegenerateInput ==
  /\ view.page = "Analytics" =>
       /\ Len(trades) = 0 =>
            /\ view.metrics =
                 [totalTrades |-> 0, wins |-> 0, losses |-> 0, breakeven |-> 0,
                  winRate |-> Number(0), profitFactor |-> Number(0),
                  expectancy |-> Number(0), totalPnl |-> 0,
                  grossProfit |-> 0, grossLoss |-> 0,
                  avgWin |-> Number(0), avgLoss |-> Number(0),
                  avgTrade |-> Number(0),
                  largestWin |-> 0, largestLoss |-> 0,
                  maxConsecWins |-> 0, maxConsecLosses |-> 0,
                  avgRR |-> Number(0), avgRating |-> Number(0)]
            /\ view.equityCurve = <<>>
            /\ view.drawdownData = <<>>
       /\ \A f \in {"winRate", "expectancy", "avgWin", "avgLoss", "avgTrade",
                     "avgRR", "avgRating"} : IsNumber(view.metrics[f])
       /\ \A r \in 1..Len(view.drawdownData) :
            IsNumber(view.drawdownData[r].drawdown)
       /\ WinPositions = {} =>
            view.metrics.avgWin = Number(0) /\ view.metrics.largestWin = 0
       /\ LossPositions = {} =>
            view.metrics.avgLoss = Number(0) /\ view.metrics.largestLoss = 0
       /\ (\A k \in AllPositions : trades[k].riskReward = None) =>
            view.metrics.avgRR = Number(0)
       /\ (\A k \in AllPositions : trades[k].rating = None) =>
            view.metrics.avgRating = Number(0)
  /\ view.page = "Dashboard" =>
       /\ Len(trades) = 0 =>
            /\ view.tradeStats =
                 [wins |-> 0, losses |-> 0, totalPnl |-> 0, winRate |-> 0,
                  profitFactor |-> Number(0), avgRating |-> Number(0),
                  total |-> 0]
            /\ view.equityCurve = <<>>
       /\ IsNumber(view.tradeStats.avgRating)

\* a list of wins only, none rated: the averages and the largest value of the
\* loss side and the average rating are 0, those of the win side are not
NeutralOnDegenerateInputWitness ==
  /\ view.page = "Analytics"
  /\ Len(trades) = 2
  /\ LossPositions = {}
  /\ Cardinality(WinPositions) = 2
  /\ \A k \in AllPositions : trades[k].rating = None
  /\ view.metrics.avgLoss = Number(0)
  /\ view.metrics.largestLoss = 0
  /\ view.metrics.avgRating = Number(0)
  /\ view.metrics.largestWin = Dollars(3)
  /\ view.metrics.avgWin = Ratio(Dollars(4), 2)

\* ------------------------------------------------------------ current streak
StreakPnls == {None, {0}, {-Dollars(50)}, {Dollars(100)}}

\* the collections of up to one entry per date, stored in any order
StreakEntryLists ==
  UNION { { [k \in 1..n |->
               [id |-> k, date |-> date[k], pnl |-> pnl[k], notes |-> None]] :
              date \in {f \in [1..n -> Dates] :
                          \A j, k \in 1..n : f[j] = f[k] => j = k},
              pnl \in [1..n -> StreakPnls] } :
            n \in 0..MaxDate }

InitStreak ==
  /\ accounts = <<WithId(Profile("funded", "active", None, 0,
                                 {Dollars(1500)}, None), AccountIds[1])>>
  /\ prevAccounts = accounts
  /\ trades = <<>>
  /\ dailyEntries \in StreakEntryLists
  /\ today = MaxDay
  /\ lastOp = "init"
  /\ storedTrades = trades
  /\ reconciledTrades = <<>>
  /\ tradeUpdates = <<>>
  /\ accountUpdates = <<>>
  /\ uuids = Len(dailyEntries)
  /\ lastEntry = <<>>
  /\ storedAccounts = accounts
  /\ sync = syncState(FALSE)
  /\ BUCKET = None
  /\ response = None
  /\ lastPut = None
  /\ view = [page |-> "none"]

NextStreak == Dashboard

SpecStreak == InitStreak /\ [][NextStreak]_vars

\* the entries the streak counts, and the most recent of them
CountedEntries ==
  {k \in 1..Len(dailyEntries) :
     dailyEntries[k].pnl # None /\ Val(dailyEntries[k].pnl) # 0}

MostRecent ==
  CHOOSE k \in CountedEntries :
    \A j \in CountedEntries : dailyEntries[j].date <= dailyEntries[k].date

EntrySign(k) == Sign(Val(dailyEntries[k].pnl))

\* C22: among the daily entries with a defined nonzero pnl, ordered by date
\* descending, the streak type is green when the most recent has pnl > 0 and
\* red when it has pnl < 0, and the count is the length of the longest prefix
\* of that order whose entries have the sign of the most recent; with no such
\* entry the streak is count 0, type none.
CurrentStreak ==
  view.page = "Dashboard" =>
    IF CountedEntries = {}
    THEN view.currentStreak = [count |-> 0, type |-> "none"]
    ELSE /\ view.currentStreak.type =
              IF EntrySign(MostRecent) > 0 THEN "green" ELSE "red"
         /\ view.currentStreak.count =
              Cardinality({k \in CountedEntries :
                             \A j \in CountedEntries :
                               dailyEntries[j].date >= dailyEntries[k].date
                                 => EntrySign(j) = EntrySign(MostRecent)})

\* three counted entries not stored by date, green, red, green from the most
\* recent back: the streak is one green day
CurrentStreakWitness ==
  /\ view.page = "Dashboard"
  /\ Cardinality(CountedEntries) = 3
  /\ MostRecent # 3
  /\ EntrySign(MostRecent) = 1
  /\ \E k \in CountedEntries : EntrySign(k) = -1
  /\ Cardinality({k \in CountedEntries : EntrySign(k) = 1}) = 2
  /\ view.currentStreak = [count |-> 1, type |-> "green"]

\* ------------------------------------------------------------ daily entries
MaxUuids == 3

\* the argument of upsertDailyEntry is an entry without id: date, and pnl or
\* notes or both or neither, each a value or undefined; the entry form
\* supplies all three
EntryFields == {"pnl", "notes"}

EntryPnls == {None, {Dollars(100)}}

EntryNotes == {None, {"note"}}

EntryArguments ==
  UNION { { [f \in {"date"} \cup F |->
               IF f = "date" THEN date ELSE IF f = "pnl" THEN pnl ELSE notes] :
              date \in Days, pnl \in EntryPnls, notes \in EntryNotes } :
            F \in SUBSET EntryFields }

existingIgnored(prev, entry) == {}

\* prev.find((e) => e.date === entry.date), as the positions of such entries
existing(prev, entry) == {k \in 1..Len(prev) : prev[k].date = entry["date"]}

\* { ...e, ...entry }
spread(e, entry) ==
  [id |-> e.id,
   date |-> entry["date"],
   pnl |-> IF "pnl" \in DOMAIN entry THEN entry["pnl"] ELSE e.pnl,
   notes |-> IF "notes" \in DOMAIN entry THEN entry["notes"] ELSE e.notes]

upsertDailyEntry(entry) ==
  /\ IF existing(dailyEntries, entry) # {}
     THEN /\ dailyEntries' =
               [k \in 1..Len(dailyEntries) |->
                  IF dailyEntries[k].date = entry["date"]
                  THEN spread(dailyEntries[k], entry)
                  ELSE dailyEntries[k]]
          /\ UNCHANGED uuids
     ELSE /\ uuids < MaxUuids
          /\ uuids' = uuids + 1
          /\ dailyEntries' =
               Append(dailyEntries,
                      spread([id |-> uuids', pnl |-> None, notes |-> None], entry))
  /\ lastEntry' = entry
  /\ scheduleSync
  /\ lastOp' = "upsert"
  /\ UNCHANGED <<accounts, trades, today, prevAccounts, storedTrades,
                 tradeUpdates, accountUpdates, reconciledTrades, view,
                 storedAccounts, BUCKET, response, lastPut>>

deleteDailyEntry(id) ==
  /\ LET Kept(e) == e.id # id
     IN  dailyEntries' = SelectSeq(dailyEntries, Kept)
  /\ scheduleSync
  /\ lastOp' = "delete"
  /\ UNCHANGED <<accounts, trades, today, prevAccounts, storedTrades,
                 tradeUpdates, accountUpdates, reconciledTrades, uuids,
                 lastEntry, view, storedAccounts, BUCKET, response, lastPut>>

InitEntries ==
  /\ accounts = <<>>
  /\ prevAccounts = accounts
  /\ trades = <<>>
  /\ dailyEntries = <<>>
  /\ today = MaxDay
  /\ lastOp = "init"
  /\ storedTrades = trades
  /\ reconciledTrades = <<>>
  /\ tradeUpdates = <<>>
  /\ accountUpdates = <<>>
  /\ uuids = 0
  /\ lastEntry = <<>>
  /\ storedAccounts = accounts
  /\ sync = syncState(FALSE)
  /\ BUCKET = None
  /\ response = None
  /\ lastPut = None
  /\ view = [page |-> "none"]

NextEntries ==
  \/ \E entry \in EntryArguments : upsertDailyEntry(entry)
  \/ \E id \in 1..MaxUuids : deleteDailyEntry(id)

SpecEntries == InitEntries /\ [][NextEntries]_vars

UniqueEntryDates ==
  \A j, k \in 1..Len(dailyEntries) :
    dailyEntries[j].date = dailyEntries[k].date => j = k

EntryIds(entries) == {entries[k].id : k \in 1..Len(entries)}

\* what one upsertDailyEntry call does to the collection
UpsertStep ==
  lastOp' = "upsert" =>
    LET entry == lastEntry'
        n == Len(dailyEntries)
        at == {k \in 1..n : dailyEntries[k].date = entry["date"]}
        Supplied(after, before) ==
          \A f \in EntryFields :
            after[f] = IF f \in DOMAIN entry THEN entry[f] ELSE before[f]
    IN  IF at # {}
        THEN /\ Len(dailyEntries') = n
             /\ \A k \in 1..n :
                  IF k \in at
                  THEN /\ dailyEntries'[k].id = dailyEntries[k].id
                       /\ dailyEntries'[k].date = dailyEntries[k].date
                       /\ Supplied(dailyEntries'[k], dailyEntries[k])
                  ELSE dailyEntries'[k] = dailyEntries[k]
        ELSE /\ Len(dailyEntries') = n + 1
             /\ SubSeq(dailyEntries', 1, n) = dailyEntries
             /\ dailyEntries'[n + 1].date = entry["date"]
             /\ dailyEntries'[n + 1].id \notin EntryIds(dailyEntries)
             /\ Supplied(dailyEntries'[n + 1], [pnl |-> None, notes |-> None])

\* C18: the date of a daily entry is a unique key: after any sequence of
\* upsertDailyEntry and deleteDailyEntry from a collection with at most one
\* entry per date there is at most one entry per date; an upsert for a date
\* that has an entry keeps that entry's id and place, overwrites the supplied
\* fields and leaves the others and every other entry alone; an upsert for a
\* new date appends exactly one entry, with an id no entry has.
EntryDateIsKey == []UniqueEntryDates /\ [][UpsertStep]_vars

\* the older of two entries was updated in place by an upsert that supplied
\* pnl and not notes: it kept its id, its place and its notes
EntryDateIsKeyWitness ==
  /\ lastOp = "upsert"
  /\ Len(dailyEntries) = 2
  /\ dailyEntries[1].id < dailyEntries[2].id
  /\ lastEntry["date"] = dailyEntries[1].date
  /\ DOMAIN lastEntry = {"date", "pnl"}
  /\ dailyEntries[1].pnl = lastEntry["pnl"]
  /\ dailyEntries[1].notes # None

\* ------------------------------------------------------------ remote sync
MaxPushes == 2

MaxTimers == 2

\* the payload syncToR2 builds from localStorage when it is called
payload == [trades |-> storedTrades, accounts |-> storedAccounts]

Push(origin) == [origin |-> origin, payload |-> payload, state |-> "pending"]

\* the callback of the timer, lines 157-164, up to the await: the timer that
\* fires is no longer pending, syncStatus is syncing and a push has started
timerFires(id) ==
  /\ id \in sync.timers
  /\ Len(sync.pushes) < MaxPushes
  /\ sync' = [sync EXCEPT !.timers = @ \ {id},
                          !.status = "syncing",
                          !.pushes = Append(@, Push("auto"))]
  /\ lastOp' = "timer"
  /\ UNCHANGED <<accounts, trades, today, prevAccounts, storedTrades,
                 tradeUpdates, accountUpdates, reconciledTrades, dailyEntries,
                 uuids, lastEntry, view, storedAccounts, BUCKET, response,
                 lastPut>>

\* triggerSync, lines 168-177, up to the await
triggerSync ==
  /\ sync.configured
  /\ Len(sync.pushes) < MaxPushes
  /\ sync' = [sync EXCEPT !.status = "syncing",
                          !.pushes = Append(@, Push("manual"))]
  /\ lastOp' = "trigger"
  /\ UNCHANGED <<accounts, trades, today, prevAccounts, storedTrades,
                 tradeUpdates, accountUpdates, reconciledTrades, dailyEntries,
                 uuids, lastEntry, view, storedAccounts, BUCKET, response,
                 lastPut>>

statusAfterPushHopeful(status, origin, ok) ==
  IF origin = "hydrate" THEN status ELSE "synced"

\* what follows the await: synced, or error in the catch; the push of the
\* hydrate effect has .catch(() => {}) and sets nothing
statusAfterPush(status, origin, ok) ==
  IF origin = "hydrate" THEN status ELSE IF ok THEN "synced" ELSE "error"

\* a push started earlier resolves (ok) or rejects; pushes settle in any order
pushSettles(i, ok) ==
  /\ i \in 1..Len(sync.pushes)
  /\ sync.pushes[i].state = "pending"
  /\ sync' = [sync EXCEPT
                 !.pushes[i].state = IF ok THEN "ok" ELSE "failed",
                 !.status = statusAfterPush(@, sync.pushes[i].origin, ok)]
  /\ lastOp' = "settled"
  /\ UNCHANGED <<accounts, trades, today, prevAccounts, storedTrades,
                 tradeUpdates, accountUpdates, reconciledTrades, dailyEntries,
                 uuids, lastEntry, view, storedAccounts, BUCKET, response,
                 lastPut>>

\* what localStorage held when DataProvider mounted, and what R2 may hold
PersistedAccounts ==
  <<WithId(Profile("funded", "active", None, Dollars(100),
                   {Dollars(1500)}, None), AccountIds[1])>>

PersistedTrades == <<[accountId |-> "a1", pnl |-> Dollars(100)]>>

\* pullFromR2 gives false (the request failed, or the blob is not an object),
\* or true after writing the collections the blob holds: none for the blob
\* {}, all of them for a blob a push has written
PullResults ==
  {None, {[trades |-> None, accounts |-> None]},
   {[trades |-> {<<[accountId |-> "a1", pnl |-> Dollars(3000)]>>},
     accounts |-> {PersistedAccounts}]}}

\* the then-callback of the hydrate effect, lines 205-217, with the writes
\* pullFromR2 made just before it; addCorrectionTrades is taken to keep
\* every record localStorage holds
pullResolves(data) ==
  /\ sync.pull = "pending"
  /\ storedTrades' = IF data # None /\ Val(data).trades # None
                     THEN Val(Val(data).trades) ELSE storedTrades
  /\ storedAccounts' = IF data # None /\ Val(data).accounts # None
                       THEN Val(Val(data).accounts) ELSE storedAccounts
  /\ trades' = storedTrades'
  /\ accounts' = storedAccounts'
  /\ sync' = [sync EXCEPT
                 !.pushes = Append(@, [origin |-> "hydrate",
                                       payload |-> [trades |-> storedTrades',
                                                    accounts |-> storedAccounts'],
                                       state |-> "pending"]),
                 !.pull = IF data = None THEN "failed"
                          ELSE IF Val(data).trades = None THEN "empty"
                          ELSE "data",
                 !.status = IF data # None THEN "synced" ELSE "idle"]
  /\ lastOp' = "pull"
  /\ UNCHANGED <<today, prevAccounts, tradeUpdates, accountUpdates,
                 reconciledTrades, dailyEntries, uuids, lastEntry, view,
                 BUCKET, response, lastPut>>

\* DataProvider has mounted with R2 configured: the collections in memory are
\* the empty arrays of useState, the hydrate effect has set syncing and its
\* pull is pending
InitSync ==
  /\ accounts = <<>>
  /\ prevAccounts = accounts
  /\ trades = <<>>
  /\ dailyEntries = <<>>
  /\ today = MaxDay
  /\ lastOp = "init"
  /\ storedTrades = PersistedTrades
  /\ reconciledTrades = <<>>
  /\ tradeUpdates = <<>>
  /\ accountUpdates = <<>>
  /\ uuids = 0
  /\ lastEntry = <<>>
  /\ storedAccounts = PersistedAccounts
  /\ sync = [syncState(TRUE) EXCEPT !.status = "syncing", !.pull = "pending"]
  /\ BUCKET = None
  /\ response = None
  /\ lastPut = None
  /\ view = [page |-> "none"]

NextSync ==
  \/ \E p \in EventPnlValues : sync.timerIds < MaxTimers /\ addTrade("a1", p)
  \/ \E id \in 1..MaxTimers : timerFires(id)
  \/ triggerSync
  \/ \E i \in 1..(MaxPushes + 1), ok \in BOOLEAN : pushSettles(i, ok)
  \/ \E data \in PullResults : pullResolves(data)

SpecSync == InitSync /\ [][NextSync]_vars

\* ------------------------------------------------------- a push that fails
\* the step in which a push of the timer or of triggerSync rejects
PushRejects ==
  \E i \in 1..Len(sync.pushes) :
    /\ sync.pushes[i].origin # "hydrate"
    /\ sync.pushes[i].state = "pending"
    /\ sync'.pushes[i].state = "failed"

\* the step of a handler taken after syncStatus has become error
MutationAfterError == sync.status = "error" /\ lastOp' = "trade"

\* C24: a push of the debounced timer or of triggerSync that rejects sets
\* syncStatus to error and changes nothing else: the collections in memory and
\* the collections in localStorage are as they were, no timer is set or
\* cancelled and no push is started; a handler called afterwards persists its
\* collection and reconciles the accounts from what memory and localStorage
\* hold, whatever the push did.
FailedPushOnlySetsError ==
  /\ [][PushRejects =>
          /\ sync'.status = "error"
          /\ sync'.timers = sync.timers
          /\ sync'.syncTimer = sync.syncTimer
          /\ Len(sync'.pushes) = Len(sync.pushes)
          /\ UNCHANGED <<accounts, trades, dailyEntries, storedTrades,
                         storedAccounts, prevAccounts, reconciledTrades,
                         today>>]_vars
  /\ [][MutationAfterError =>
          /\ storedTrades' = trades'
          /\ Len(trades') = Len(trades) + 1
          /\ accounts' = recalcAccountPnl(accounts, trades', today)
          /\ storedAccounts' = accounts'
          /\ sync'.status = "error"]_vars

FailedPushWitness ==
  /\ lastOp = "trade"
  /\ sync.status = "error"
  /\ \E i \in 1..Len(sync.pushes) :
       sync.pushes[i].origin = "auto" /\ sync.pushes[i].state = "failed"
  /\ Len(trades) = 2
  /\ storedTrades = trades

\* ------------------------------------------------------------- the debounce
\* Time is not modelled: a timer that is pending may fire at any later step,
\* a timer that was cancelled never fires.  A burst is a run of handler steps
\* with no timer step between them, which is what mutations less than 500 ms
\* apart are.
AutoPushes == {i \in 1..Len(sync.pushes) : sync.pushes[i].origin = "auto"}

\* C25: every mutation cancels the timer that is pending and sets a new one,
\* so at most one timer is pending in every state; when a timer fires, no
\* timer is left pending, so a burst of mutations starts exactly one push, and
\* the push that starts sends the collections localStorage holds at that step.
DebouncedAutoSync ==
  /\ [](Cardinality(sync.timers) <= 1)
  /\ [](Cardinality(AutoPushes) + Cardinality(sync.timers) <= sync.timerIds)
  /\ [][lastOp' = "trade" =>
          /\ sync'.timerIds = sync.timerIds + 1
          /\ sync'.timers = {sync'.timerIds}
          /\ sync'.syncTimer = {sync'.timerIds}
          /\ sync'.pushes = sync.pushes]_vars
  /\ [][lastOp' = "timer" =>
          /\ sync.timers = sync.syncTimer
          /\ sync'.timers = {}
          /\ Len(sync'.pushes) = Len(sync.pushes) + 1
          /\ sync'.pushes[Len(sync'.pushes)] =
               [origin |-> "auto", state |-> "pending",
                payload |-> [trades |-> storedTrades,
                             accounts |-> storedAccounts]]]_vars

\* a burst of two mutations has been followed by one push, which carries both
DebouncedAutoSyncWitness ==
  /\ lastOp = "timer"
  /\ sync.timerIds = 2
  /\ Cardinality(AutoPushes) = 1
  /\ sync.timers = {}
  /\ \E i \in AutoPushes : Len(sync.pushes[i].payload.trades) = 2

\* ------------------------------------------------------------- hydration
\* the trades of a list, as a set
Records(ts) == {ts[k] : k \in 1..Len(ts)}

\* C29 as claimed: after a pull that fails, or that finds no data, the
\* collections loaded hold every record localStorage held when DataProvider
\* mounted and every trade added since.
HydrationKeepsRecords ==
  (lastOp = "pull" /\ sync.pull \in {"failed", "empty"}) =>
    /\ Records(PersistedTrades) \subseteq Records(trades)
    /\ Len(trades) = Len(PersistedTrades) + sync.timerIds
    /\ Len(accounts) = Len(PersistedAccounts)

\* C30 as claimed: whenever syncStatus is synced, the push started last has
\* completed successfully.
SyncedIsTruthful ==
  sync.status = "synced" =>
    /\ Len(sync.pushes) > 0
    /\ sync.pushes[Len(sync.pushes)].state = "ok"

\* ---------------------------------------------------------------- worker
\* The worker answers one request at a time.  A request is its method, the
\* pathname of its URL, its Authorization header (absent or a string) and its
\* body; a response is its status and body, kept with the request it answers.
\* env.AUTH_TOKEN is "secret".
Authorizations ==
  {None, {"Bearer secret"}, {"Bearer wrong"}, {"secret"}, {"bearer secret"},
   {"Bearer secrets"}}

\* the texts JSON.parse accepts, among the bodies sent
JSONTexts == {"{}", "{\"trades\":[]}", "[1]"}

Bodies == JSONTexts \cup {"", "{trades", "undefined"}

Requests ==
  [method : {"GET", "PUT", "OPTIONS", "POST"}, pathname : {"/sync", "/other"},
   authorization : Authorizations, body : Bodies]

isAuthorizedByScheme(auth) == auth \in {{"Bearer secret"}, {"Bearer wrong"}}

\* the negation of the test of line 113: auth is `Bearer ${env.AUTH_TOKEN}`
isAuthorized(auth) == auth = {"Bearer secret"}

\* JSON.parse(body) does not throw
parses(body) == body \in JSONTexts

Response(request, status, body) ==
  [request |-> request, status |-> status, body |-> body]

\* the status and body of the answer to a request, lines 35-131; the FRED
\* routes are left out of the pathnames
answer(request) ==
  IF request.method = "OPTIONS"
  THEN Response(request, 204, "")
  ELSE IF request.pathname # "/sync"
  THEN Response(request, 404, "Not found")
  ELSE IF request.method = "GET"
  THEN Response(request, 200, IF BUCKET = None THEN "{}" ELSE Val(BUCKET))
  ELSE IF request.method = "PUT"
  THEN IF ~isAuthorized(request.authorization)
       THEN Response(request, 401, "Unauthorized")
       ELSE IF ~parses(request.body)
            THEN Response(request, 400, "Invalid JSON")
            ELSE Response(request, 200, "OK")
  ELSE Response(request, 405, "Method not allowed")

\* fetch(request, env): the object in R2 is written on the one path that
\* reaches env.BUCKET.put
fetch(request) ==
  /\ response' = {answer(request)}
  /\ BUCKET' = IF /\ request.method = "PUT"
                  /\ request.pathname = "/sync"
                  /\ isAuthorized(request.authorization)
                  /\ parses(request.body)
               THEN {request.body}
               ELSE BUCKET
  /\ lastPut' = IF request.method = "PUT" /\ answer(request).status = 200
                THEN {request.body}
                ELSE lastPut
  /\ lastOp' = "fetch"
  /\ UNCHANGED <<accounts, trades, today, prevAccounts, storedTrades,
                 tradeUpdates, accountUpdates, reconciledTrades, dailyEntries,
                 uuids, lastEntry, view, storedAccounts, sync>>

InitWorker ==
  /\ accounts = <<>>
  /\ prevAccounts = accounts
  /\ trades = <<>>
  /\ dailyEntries = <<>>
  /\ today = MaxDay
  /\ lastOp = "init"
  /\ storedTrades = trades
  /\ reconciledTrades = <<>>
  /\ tradeUpdates = <<>>
  /\ accountUpdates = <<>>
  /\ uuids = 0
  /\ lastEntry = <<>>
  /\ storedAccounts = accounts
  /\ sync = syncState(FALSE)
  /\ BUCKET = None
  /\ response = None
  /\ lastPut = None
  /\ view = [page |-> "none"]

NextWorker == \E request \in Requests : fetch(request)

SpecWorker == InitWorker /\ [][NextWorker]_vars

\* the last response answers a PUT /sync
AnswersPut ==
  /\ response # None
  /\ Val(response).request.method = "PUT"
  /\ Val(response).request.pathname = "/sync"

\* what the worker answered last
Answered ==
  response # None =>
    LET r == Val(response)
        q == r.request
    IN  /\ (AnswersPut /\ q.authorization # {"Bearer secret"}) => r.status = 401
        /\ (AnswersPut /\ q.authorization = {"Bearer secret"}
              /\ q.body \notin JSONTexts) => r.status = 400
        /\ (q.method = "GET" /\ q.pathname = "/sync") =>
             /\ r.status = 200
             /\ r.body = IF lastPut = None THEN "{}" ELSE Val(lastPut)

\* C26: a PUT /sync whose Authorization header is not exactly "Bearer
\* <AUTH_TOKEN>" is answered 401 and an authorized PUT whose body is not JSON
\* is answered 400; neither changes the stored object, so a later GET /sync
\* returns the body of the last PUT answered 200, or {} when there is none.
WritesAuthenticatedAndValidated ==
  /\ []Answered
  /\ [][(response' # None /\ Val(response').status \in {400, 401})
          => BUCKET' = BUCKET]_vars

\* a PUT of a JSON body with a wrong token is answered 401 and the object
\* stored by an earlier PUT is still in the bucket
WritesAuthenticatedWitness ==
  /\ AnswersPut
  /\ Val(response).status = 401
  /\ Val(response).request.authorization = {"Bearer wrong"}
  /\ Val(response).request.body = "[1]"
  /\ BUCKET = {"{\"trades\":[]}"}
  /\ lastPut = BUCKET

====
